---- MODULE Spec2Model ----
(***************************************************************************)
(* Model of newsgenie-ai: NewsFetcher (the two fetch adapters, fetch_all,   *)
(* _deduplicate), ArticleCategorizer, SentimentAnalyzer, the processing    *)
(* pipeline of app.py, TrendAnalyzer and ConversationalAgent.              *)
(*                                                                         *)
(* Python strings are sequences of one-character strings, so that lower(), *)
(* strip(), split(), join, slicing, substring search and the code-point    *)
(* order used by list.sort are computed as the code computes them.         *)
(***************************************************************************)
EXTENDS Integers, Sequences, FiniteSets, TLC

\* Bounds of the model -------------------------------------------------------
\* total number of raw entries the sources deliver in one fetch_all call
MaxEntries == 3
\* number of configured RSS feeds (config.py lists 33)
NumFeeds == 2
\* length of the lists handed to a direct _deduplicate call
MaxDedupLen == 3
\* length of the batch handed to the categorizer, and number of calls made on it
MaxBatch == 2
MaxCalls == 3
\* number of words of a text handed to extract_keywords, and the greatest top_n
MaxWords == 3
MaxTopN == 3
\* number of process_query calls made on an agent before its history is cleared
MaxTurns == 2

\* Program constants ---------------------------------------------------------
TitleKeyTokens == 10
FetchCap == 100
FeedEntryCap == 20
SummaryCap == 500

\* Python values -------------------------------------------------------------
\* None, and the absence of a key in a dict
NoneVal == <<"<None>">>
Missing == <<"<missing>">>
EmptyStr == <<>>

\* dict.get(key, default): the default is used only when the key is absent
DictGet(v, default) == IF v = Missing THEN default ELSE v

\* truthiness of a str-or-None value
Truthy(v) == v # NoneVal /\ v # EmptyStr /\ v # Missing

UpperChars ==
  <<"A","B","C","D","E","F","G","H","I","J","K","L","M",
    "N","O","P","Q","R","S","T","U","V","W","X","Y","Z">>
LowerChars ==
  <<"a","b","c","d","e","f","g","h","i","j","k","l","m",
    "n","o","p","q","r","s","t","u","v","w","x","y","z">>
DigitChars == <<"0","1","2","3","4","5","6","7","8","9">>

\* str.lower()
LowerChar(c) ==
  IF \E i \in 1..26 : UpperChars[i] = c
  THEN LowerChars[CHOOSE i \in 1..26 : UpperChars[i] = c]
  ELSE c
LowerStr(s) == [i \in 1..Len(s) |-> LowerChar(s[i])]

IsSpace(c) == c \in {" ", "\t", "\n"}

\* s[:n]
Take(s, n) == IF Len(s) <= n THEN s ELSE SubSeq(s, 1, n)

\* str.strip()
RECURSIVE LStrip(_)
LStrip(s) == IF s # <<>> /\ IsSpace(Head(s)) THEN LStrip(Tail(s)) ELSE s
RECURSIVE RStrip(_)
RStrip(s) ==
  IF s # <<>> /\ IsSpace(s[Len(s)]) THEN RStrip(SubSeq(s, 1, Len(s) - 1)) ELSE s
Strip(s) == LStrip(RStrip(s))

\* str.split(): the maximal runs of non-whitespace characters
RECURSIVE SplitFrom(_, _, _)
SplitFrom(s, cur, out) ==
  IF s = <<>> THEN (IF cur = <<>> THEN out ELSE Append(out, cur))
  ELSE IF IsSpace(Head(s))
       THEN SplitFrom(Tail(s), <<>>, IF cur = <<>> THEN out ELSE Append(out, cur))
       ELSE SplitFrom(Tail(s), Append(cur, Head(s)), out)
Split(s) == SplitFrom(s, <<>>, <<>>)

\* ''.join(tokens)
RECURSIVE Join(_)
Join(toks) == IF toks = <<>> THEN <<>> ELSE Head(toks) \o Join(Tail(toks))

\* sub in s
IsSubstring(sub, s) ==
  \E i \in 0..(Len(s) - Len(sub)) :
     \A k \in 1..Len(sub) : s[i + k] = sub[k]

\* A loop over a list: the state after the body has run on items[lo..hi] in
\* order, starting from acc (halving keeps the evaluation shallow)
RECURSIVE ForEach(_, _, _, _, _)
ForEach(Body(_, _), items, lo, hi, acc) ==
  IF lo > hi THEN acc
  ELSE IF lo = hi THEN Body(acc, items[lo])
  ELSE LET mid == (lo + hi) \div 2
           left == ForEach(Body, items, lo, mid, acc)
       IN \* the comparison has TLC evaluate the first half before the second
          IF left = left THEN ForEach(Body, items, mid + 1, hi, left) ELSE acc

\* Code points of the characters that occur in timestamps -------------------
CodePoint ==
  "+" :> 43 @@ "-" :> 45 @@ "." :> 46 @@ "0" :> 48 @@ "1" :> 49 @@
  "2" :> 50 @@ "3" :> 51 @@ "4" :> 52 @@ "5" :> 53 @@ "6" :> 54 @@
  "7" :> 55 @@ "8" :> 56 @@ "9" :> 57 @@ ":" :> 58 @@ "T" :> 84 @@
  "Z" :> 90 @@ "n" :> 110 @@ "o" :> 111 @@ "s" :> 115
Ord(c) == CodePoint[c]

\* a < b for Python str: the first differing character decides, a proper
\* prefix is smaller
RECURSIVE FirstDiff(_, _, _)
FirstDiff(a, b, i) ==
  IF i > Len(a) \/ i > Len(b) THEN 0
  ELSE IF a[i] # b[i] THEN i
  ELSE FirstDiff(a, b, i + 1)
StrLess(a, b) ==
  LET d == FirstDiff(a, b, 1) IN
  IF d = 0 THEN Len(a) < Len(b) ELSE Ord(a[d]) < Ord(b[d])

\* Timestamps ----------------------------------------------------------------
\* A datetime is [day, hour, off]; off is "naive", "utc", "+05" or "-05".
DatePrefix == <<"2","0","2","4","-","0","1","-","0">>
MinSec == <<":","0","0",":","0","0">>
Digit2(n) == <<DigitChars[(n \div 10) + 1], DigitChars[(n % 10) + 1]>>
LocalPart(dt) ==
  DatePrefix \o <<DigitChars[dt.day + 1]>> \o <<"T">> \o Digit2(dt.hour) \o MinSec

\* datetime.isoformat()
IsoFormat(dt) ==
  LocalPart(dt) \o
  CASE dt.off = "naive" -> <<>>
    [] dt.off = "utc"   -> <<"+","0","0",":","0","0">>
    [] dt.off = "+05"   -> <<"+","0","5",":","0","0">>
    [] dt.off = "-05"   -> <<"-","0","5",":","0","0">>

\* datetime.now().isoformat(): the naive local time of the fetch, with the
\* microseconds
NowDay == 3
NowHour == 12
NowIso ==
  LocalPart([day |-> NowDay, hour |-> NowHour, off |-> "naive"])
    \o <<".","0","0","0","0","0","1">>

\* the publishedAt string of the API's JSON for a datetime (UTC is "Z")
ApiTimeString(dt) ==
  IF dt.off = "utc" THEN LocalPart(dt) \o <<"Z">> ELSE IsoFormat(dt)
GarbageDate == <<"s","o","o","n">>


\* Fetch adapters ------------------------------------------------------------
\* A raw entry of a source is [url, title, summary, src, pub]: url, title and
\* summary are strings, Missing or NoneVal; src is the API's source name,
\* Missing when the item has no source and NoneVal when its source is null;
\* pub is [k, day, hour, off] with k "date", "garbage", "missing" or "null".
\* An Article is [title, summary, url, source, published].

UnknownSource == <<"U","n","k","n","o","w","n">>
NoTitle == <<"N","o"," ","T","i","t","l","e">>
RssFeedName == <<"R","S","S"," ","F","e","e","d">>

\* the JSON value of publishedAt
JsonPublishedAt(pub) ==
  CASE pub.k = "missing" -> Missing
    [] pub.k = "null"    -> NoneVal
    [] pub.k = "garbage" -> GarbageDate
    [] pub.k = "date"    -> ApiTimeString(pub)

\* item.get('source', {}).get('name', 'Unknown') raises on a null source;
\* NullName stands for a source object whose name is null
NullName == <<"<null name>">>
ApiItemRaises(item) == item.src = NoneVal

ApiArticle(item) ==
  [title     |-> DictGet(item.title, EmptyStr),
   summary   |-> DictGet(item.summary, EmptyStr),
   url       |-> DictGet(item.url, EmptyStr),
   source    |-> IF item.src = NullName THEN NoneVal
                 ELSE DictGet(item.src, UnknownSource),
   published |-> DictGet(JsonPublishedAt(item.pub), NowIso)]

\* the body of the loop of fetch_from_news_api over data['articles']; st is
\* [articles, seen]
ApiLoopBody(st, item) ==
  IF ApiItemRaises(item) THEN st
  ELSE LET article == ApiArticle(item) IN
       IF Truthy(article.url) /\ article.url \notin st.seen
       THEN [articles |-> Append(st.articles, article),
             seen |-> st.seen \cup {article.url}]
       ELSE st

\* the params of the request: params['category'] = category.lower() unless
\* the category is None, empty or 'all' in any case
AllFilter == <<"a","l","l">>
ApiParams(category) ==
  [country  |-> "gb",
   language |-> "en",
   pageSize |-> 50,
   category |-> IF Truthy(category) /\ LowerStr(category) # AllFilter
                THEN LowerStr(category) ELSE Missing]
\* no request has been sent
NoRequest == [country |-> "", language |-> "", pageSize |-> 0, category |-> Missing]

\* NEWS_SOURCES['news_api']['categories']
NewsApiCategories ==
  { <<"g","e","n","e","r","a","l">>,
    <<"b","u","s","i","n","e","s","s">>,
    <<"t","e","c","h","n","o","l","o","g","y">>,
    <<"s","p","o","r","t","s">>,
    <<"e","n","t","e","r","t","a","i","n","m","e","n","t">>,
    <<"h","e","a","l","t","h">>,
    <<"s","c","i","e","n","c","e">> }

\* fetch_from_news_api: resp is [ok, entries]; ok is FALSE when the key is
\* not configured, the request fails or the status is not 'ok'
FetchFromNewsApi(resp, seen) ==
  IF ~resp.ok THEN [articles |-> <<>>, seen |-> seen]
  ELSE ForEach(ApiLoopBody, resp.entries, 1, Len(resp.entries),
               [articles |-> <<>>, seen |-> seen])

\* re.sub(r'<[^>]+>', '', s)
FirstGt(s, from) ==
  IF \E j \in from..Len(s) : s[j] = ">"
  THEN CHOOSE j \in from..Len(s) :
         s[j] = ">" /\ \A k \in from..(j - 1) : s[k] # ">"
  ELSE 0
\* one step of the scan at position i; st is [out, next], next being the
\* position where the scan goes on after a tag
StripTagsFrom(s, st, i) ==
  IF i < st.next THEN st
  ELSE IF s[i] = "<" /\ i + 1 <= Len(s) /\ s[i + 1] # ">"
          /\ FirstGt(s, i + 2) # 0
       THEN [out |-> st.out, next |-> FirstGt(s, i + 2) + 1]
       ELSE [out |-> Append(st.out, s[i]), next |-> i + 1]
StripTags(s) ==
  LET Step(st, i) == StripTagsFrom(s, st, i)
  IN ForEach(Step, [i \in 1..Len(s) |-> i], 1, Len(s), [out |-> <<>>, next |-> 1]).out

\* entry.get('published', entry.get('updated', '')), parsed by dateutil and
\* formatted again; the fetch time when absent or unparseable
RssPublished(pub) ==
  IF pub.k = "date" THEN IsoFormat(pub) ELSE NowIso

RssArticle(entry, feedTitle) ==
  [title     |-> DictGet(entry.title, NoTitle),
   summary   |-> Take(StripTags(DictGet(entry.summary, EmptyStr)), SummaryCap),
   url       |-> DictGet(entry.url, EmptyStr),
   source    |-> DictGet(feedTitle, RssFeedName),
   published |-> RssPublished(entry.pub)]

\* (mutant) the loop body without the check of the url
RssLoopBodyNoUrlCheck(st, entry) ==
  [articles |-> Append(st.articles, RssArticle(entry, st.feedTitle)),
   seen |-> st.seen \cup {DictGet(entry.url, EmptyStr)},
   feedTitle |-> st.feedTitle]

\* the body of the loop of fetch_from_rss over feed.entries[:20]; st is
\* [articles, seen, feedTitle]
RssLoopBody(st, entry) ==
  LET url == DictGet(entry.url, EmptyStr) IN
  IF ~Truthy(url) \/ url \in st.seen THEN st
  ELSE [articles |-> Append(st.articles, RssArticle(entry, st.feedTitle)),
        seen |-> st.seen \cup {url},
        feedTitle |-> st.feedTitle]

\* fetch_from_rss: resp is [ok, entries]; ok is FALSE when the feed cannot be
\* fetched or parsed
FetchFromRss(resp, feedTitle, seen) ==
  IF ~resp.ok THEN [articles |-> <<>>, seen |-> seen]
  ELSE LET entries == Take(resp.entries, FeedEntryCap)
           st == ForEach(RssLoopBody, entries, 1, Len(entries),
                         [articles |-> <<>>, seen |-> seen, feedTitle |-> feedTitle])
       IN [articles |-> st.articles, seen |-> st.seen]

\* _deduplicate ---------------------------------------------------------------
\* (mutant) the key cut one token too late
TitleKeyOneMore(title) == Join(Take(Split(title), TitleKeyTokens + 1))

\* ''.join(title.split()[:10])
TitleKey(title) == Join(Take(Split(title), TitleKeyTokens))

\* (mutant) the loop body recording the key of an empty title too
DedupLoopBodyNoTitleGuard(st, article) ==
  LET url == article.url
      title == Strip(LowerStr(article.title))
      titleKey == TitleKey(title)
  IN IF Truthy(url) /\ url \in st.seen_urls THEN st
     ELSE IF titleKey \in st.seen_titles THEN st
     ELSE [seen_urls |-> IF Truthy(url) THEN st.seen_urls \cup {url}
                                        ELSE st.seen_urls,
           seen_titles |-> st.seen_titles \cup {titleKey},
           unique_articles |-> Append(st.unique_articles, article)]

\* (mutant) the loop body putting a kept article in front of the list
DedupLoopBodyPrepend(st, article) ==
  LET url == article.url
      title == Strip(LowerStr(article.title))
      titleKey == TitleKey(title)
  IN IF Truthy(url) /\ url \in st.seen_urls THEN st
     ELSE IF titleKey \in st.seen_titles THEN st
     ELSE [seen_urls |-> IF Truthy(url) THEN st.seen_urls \cup {url}
                                        ELSE st.seen_urls,
           seen_titles |-> IF title # EmptyStr THEN st.seen_titles \cup {titleKey}
                                               ELSE st.seen_titles,
           unique_articles |-> <<article>> \o st.unique_articles]

\* the body of the loop of _deduplicate; st is
\* [seen_urls, seen_titles, unique_articles]
DedupLoopBody(st, article) ==
  LET url == article.url
      title == Strip(LowerStr(article.title))
      titleKey == TitleKey(title)
  IN IF Truthy(url) /\ url \in st.seen_urls THEN st
     ELSE IF titleKey \in st.seen_titles THEN st
     ELSE [seen_urls |-> IF Truthy(url) THEN st.seen_urls \cup {url}
                                        ELSE st.seen_urls,
           seen_titles |-> IF title # EmptyStr THEN st.seen_titles \cup {titleKey}
                                               ELSE st.seen_titles,
           unique_articles |-> Append(st.unique_articles, article)]

\* article.get('title', '').lower() raises when a title is None
DedupRaises(articles) == \E i \in 1..Len(articles) : articles[i].title = NoneVal

Deduplicate(articles) ==
  ForEach(DedupLoopBody, articles, 1, Len(articles),
          [seen_urls |-> {}, seen_titles |-> {}, unique_articles |-> <<>>]
         ).unique_articles

\* list.sort(key=published, reverse=True) --------------------------------------
\* the sort is stable and the reverse keeps the order of equal keys: an
\* article goes after those with a greater key and after the earlier ones
\* with an equal key
SortsBefore(a, i, b, j) ==
  StrLess(b.published, a.published) \/ (a.published = b.published /\ i < j)
SortByPublishedDesc(articles) ==
  LET n == Len(articles)
      \* the position of each article (a tuple, computed once)
      rank == <<>> \o [i \in 1..n |->
                 1 + Cardinality({ j \in 1..n :
                       SortsBefore(articles[j], j, articles[i], i) })]
  IN [p \in 1..n |-> articles[CHOOSE i \in 1..n : rank[i] = p]]

\* comparing None with a str, or with None, raises TypeError
SortRaises(articles) ==
  Len(articles) >= 2 /\ \E i \in 1..Len(articles) : articles[i].published = NoneVal

\* the end of fetch_all, after the adapters: the value returned or the
\* exception raised
Returned(list) == [kind |-> "list", val |-> list]
Raised == [kind |-> "raised", val |-> <<>>]
NoResult == [kind |-> "none", val |-> <<>>]

FinishFetchAll(allArticles) ==
  IF allArticles = <<>> THEN Returned(<<>>)
  ELSE IF DedupRaises(allArticles) THEN Raised
  ELSE LET unique == Deduplicate(allArticles) IN
       IF SortRaises(unique) THEN Raised
       ELSE Returned(Take(SortByPublishedDesc(unique), FetchCap))


\* The sources' possible entries ---------------------------------------------
Date(d, h, off) == [k |-> "date", day |-> d, hour |-> h, off |-> off]
NoDate(k) == [k |-> k, day |-> 0, hour |-> 0, off |-> "naive"]
Raw(url, title, summary, src, pub) ==
  [url |-> url, title |-> title, summary |-> summary, src |-> src, pub |-> pub]

UrlX == <<"n","/","x">>
UrlY == <<"n","/","y">>
UrlZ == <<"n","/","z">>
TitleFoo == <<"F","o","o"," ","w","i","n","s">>
TitleFooVariant == <<"f","o","o"," "," ","W","I","N","S"," ">>
TitleBar == <<"B","a","r">>
TitleBaz == <<"B","a","z">>
TitleBlank == <<" ">>
SummaryPlain == <<"o","n">>
SummaryTagged == <<"<","b",">","o","n","<","/","b",">">>
SourceName == <<"W","i","r","e">>

\* what the API's JSON can hold: strings, nulls and absent keys
ApiPool ==
  { Raw(UrlX, TitleFoo, SummaryPlain, SourceName, Date(1, 10, "+05")),
    Raw(UrlX, TitleBar, SummaryPlain, NoneVal, Date(1, 9, "utc")),
    Raw(UrlY, TitleFooVariant, Missing, Missing, Date(2, 9, "utc")),
    Raw(UrlY, EmptyStr, SummaryPlain, SourceName, NoDate("missing")),
    Raw(NoneVal, TitleBar, SummaryPlain, SourceName, Date(1, 9, "naive")),
    Raw(UrlZ, TitleBlank, NoneVal, SourceName, Date(1, 9, "utc")),
    Raw(UrlZ, TitleBaz, SummaryPlain, SourceName, NoDate("null")),
    Raw(UrlY, NoneVal, SummaryPlain, SourceName, NoDate("garbage")) }
\* what a parsed feed can hold: strings and absent keys
RssPool ==
  { Raw(UrlX, TitleFoo, SummaryPlain, Missing, Date(1, 10, "+05")),
    Raw(UrlX, TitleBar, SummaryTagged, Missing, Date(1, 9, "utc")),
    Raw(UrlY, TitleFooVariant, Missing, Missing, Date(2, 9, "utc")),
    Raw(UrlY, EmptyStr, SummaryPlain, Missing, NoDate("missing")),
    Raw(Missing, TitleBar, SummaryPlain, Missing, Date(1, 9, "naive")),
    Raw(UrlZ, TitleBlank, SummaryPlain, Missing, Date(1, 9, "utc")),
    Raw(UrlZ, Missing, SummaryPlain, Missing, NoDate("garbage")) }

SmallPool ==
  { Raw(UrlX, TitleFoo, SummaryPlain, SourceName, Date(1, 10, "+05")),
    Raw(UrlX, TitleBar, SummaryPlain, SourceName, Date(1, 9, "utc")),
    Raw(UrlY, TitleFooVariant, SummaryPlain, SourceName, Date(2, 9, "utc")) }

\* entries whose summary is as long as the cap of the feed adapter, and longer
LongText(n) == [i \in 1..n |-> "x"]
LongPool ==
  { Raw(UrlX, TitleFoo, LongText(SummaryCap + 1), SourceName, Date(1, 10, "utc")),
    Raw(UrlY, TitleBar, LongText(SummaryCap), SourceName, Date(1, 9, "utc")),
    Raw(UrlZ, TitleBaz, <<"<","b",">">> \o LongText(SummaryCap), SourceName,
        Date(2, 9, "utc")) }

\* the lists of at most n elements of S
Lists(S, n) == UNION { [1..k -> S] : k \in 0..n }

\* a large response: n entries with distinct urls and titles, the dates
\* spread by the pattern p
Digit3(i) ==
  <<DigitChars[(i \div 100) + 1], DigitChars[((i \div 10) % 10) + 1],
    DigitChars[(i % 10) + 1]>>
BulkEntry(i, p) ==
  Raw(<<"u">> \o Digit3(i), <<"t">> \o Digit3(i), SummaryPlain, SourceName,
      Date(1 + ((i * p) % 2), (i * p + p) % 24,
           IF (i + p) % 3 = 0 THEN "utc" ELSE IF (i + p) % 3 = 1 THEN "+05" ELSE "naive"))
BulkEntries(n, p) == [i \in 1..n |-> BulkEntry(i, p)]
BulkPatterns == 3
BulkExtra == 2

FeedTitle(i) == IF i % 2 = 1 THEN <<"B","B","C">> ELSE Missing

\* ArticleCategorizer: tables and categorize ---------------------------------
TechnologyKeywords ==
  <<
    <<"t","e","c","h">>, <<"t","e","c","h","n","o","l","o","g","y">>,
    <<"s","o","f","t","w","a","r","e">>, <<"h","a","r","d","w","a","r","e">>,
    <<"c","o","m","p","u","t","e","r">>, <<"a","i">>,
    <<"a","r","t","i","f","i","c","i","a","l"," ","i","n","t","e","l","l","i","g","e","n","c","e">>,
    <<"m","a","c","h","i","n","e"," ","l","e","a","r","n","i","n","g">>,
    <<"a","l","g","o","r","i","t","h","m">>, <<"d","a","t","a">>, <<"c","y","b","e","r">>,
    <<"d","i","g","i","t","a","l">>, <<"a","p","p">>,
    <<"s","m","a","r","t","p","h","o","n","e">>, <<"i","n","t","e","r","n","e","t">>,
    <<"o","n","l","i","n","e">>, <<"w","e","b">>, <<"s","t","a","r","t","u","p">>,
    <<"s","i","l","i","c","o","n"," ","v","a","l","l","e","y">>, <<"g","a","d","g","e","t">>,
    <<"i","n","n","o","v","a","t","i","o","n">>, <<"c","o","d","i","n","g">>,
    <<"p","r","o","g","r","a","m","m","i","n","g">>, <<"d","e","v","e","l","o","p","e","r">>,
    <<"g","o","o","g","l","e">>, <<"a","p","p","l","e">>,
    <<"m","i","c","r","o","s","o","f","t">>, <<"a","m","a","z","o","n">>,
    <<"f","a","c","e","b","o","o","k">>, <<"m","e","t","a">>, <<"t","w","i","t","t","e","r">>,
    <<"t","e","s","l","a">>, <<"s","p","a","c","e","x">>, <<"r","o","b","o","t">>,
    <<"a","u","t","o","m","a","t","i","o","n">>, <<"b","l","o","c","k","c","h","a","i","n">>,
    <<"c","r","y","p","t","o","c","u","r","r","e","n","c","y">>,
    <<"b","i","t","c","o","i","n">>,
    <<"c","l","o","u","d"," ","c","o","m","p","u","t","i","n","g">>, <<"5","g">>,
    <<"v","i","r","t","u","a","l"," ","r","e","a","l","i","t","y">>, <<"v","r">>, <<"a","r">>,
    <<"t","e","c","h"," ","g","i","a","n","t">>,
    <<"t","e","c","h"," ","c","o","m","p","a","n","y">>, <<"c","h","i","p">>,
    <<"s","e","m","i","c","o","n","d","u","c","t","o","r">>,
    <<"p","r","o","c","e","s","s","o","r">>, <<"g","a","m","i","n","g">>
  >>

SportsKeywords ==
  <<
    <<"s","p","o","r","t">>, <<"f","o","o","t","b","a","l","l">>, <<"s","o","c","c","e","r">>,
    <<"b","a","s","k","e","t","b","a","l","l">>, <<"b","a","s","e","b","a","l","l">>,
    <<"t","e","n","n","i","s">>, <<"g","o","l","f">>, <<"c","r","i","c","k","e","t">>,
    <<"r","u","g","b","y">>, <<"h","o","c","k","e","y">>, <<"o","l","y","m","p","i","c","s">>,
    <<"w","o","r","l","d"," ","c","u","p">>,
    <<"c","h","a","m","p","i","o","n","s","h","i","p">>, <<"l","e","a","g","u","e">>,
    <<"t","o","u","r","n","a","m","e","n","t">>, <<"m","a","t","c","h">>, <<"g","a","m","e">>,
    <<"p","l","a","y","e","r">>, <<"t","e","a","m">>, <<"c","o","a","c","h">>,
    <<"a","t","h","l","e","t","e">>, <<"f","i","f","a">>, <<"n","b","a">>, <<"n","f","l">>,
    <<"m","l","b">>, <<"p","r","e","m","i","e","r"," ","l","e","a","g","u","e">>,
    <<"c","h","a","m","p","i","o","n","s"," ","l","e","a","g","u","e">>,
    <<"m","e","d","a","l">>, <<"t","r","o","p","h","y">>, <<"s","c","o","r","e">>,
    <<"g","o","a","l">>, <<"w","i","n">>, <<"d","e","f","e","a","t">>,
    <<"b","o","x","i","n","g">>, <<"m","m","a">>, <<"u","f","c">>,
    <<"f","o","r","m","u","l","a"," ","1">>, <<"f","1">>, <<"r","a","c","i","n","g">>,
    <<"m","a","r","a","t","h","o","n">>, <<"s","w","i","m","m","i","n","g">>,
    <<"s","u","p","e","r"," ","b","o","w","l">>,
    <<"w","o","r","l","d"," ","s","e","r","i","e","s">>, <<"f","i","n","a","l">>,
    <<"s","e","m","i","f","i","n","a","l">>, <<"p","l","a","y","o","f","f">>,
    <<"s","t","a","d","i","u","m">>, <<"a","r","e","n","a">>
  >>

BusinessKeywords ==
  <<
    <<"b","u","s","i","n","e","s","s">>, <<"c","o","m","p","a","n","y">>,
    <<"c","o","r","p","o","r","a","t","e">>, <<"s","t","a","r","t","u","p">>,
    <<"e","n","t","r","e","p","r","e","n","e","u","r">>, <<"i","n","d","u","s","t","r","y">>,
    <<"r","e","t","a","i","l">>, <<"e","-","c","o","m","m","e","r","c","e">>,
    <<"s","a","l","e","s">>, <<"c","u","s","t","o","m","e","r">>, <<"b","r","a","n","d">>,
    <<"m","a","r","k","e","t","i","n","g">>, <<"c","e","o">>,
    <<"e","x","e","c","u","t","i","v","e">>, <<"m","e","r","g","e","r">>,
    <<"a","c","q","u","i","s","i","t","i","o","n">>,
    <<"v","e","n","t","u","r","e"," ","c","a","p","i","t","a","l">>, <<"i","p","o">>,
    <<"p","a","r","t","n","e","r","s","h","i","p">>, <<"d","e","a","l">>,
    <<"s","u","p","p","l","y"," ","c","h","a","i","n">>,
    <<"m","a","n","u","f","a","c","t","u","r","i","n","g">>,
    <<"p","r","o","d","u","c","t","i","o","n">>, <<"w","o","r","k","f","o","r","c","e">>,
    <<"e","m","p","l","o","y","m","e","n","t">>, <<"h","i","r","i","n","g">>,
    <<"l","a","y","o","f","f">>, <<"e","x","p","a","n","s","i","o","n">>,
    <<"g","r","o","w","t","h"," ","s","t","r","a","t","e","g","y">>,
    <<"b","u","s","i","n","e","s","s"," ","m","o","d","e","l">>
  >>

FinanceKeywords ==
  <<
    <<"f","i","n","a","n","c","e">>, <<"f","i","n","a","n","c","i","a","l">>,
    <<"e","c","o","n","o","m","y">>, <<"e","c","o","n","o","m","i","c">>,
    <<"m","a","r","k","e","t">>, <<"s","t","o","c","k">>, <<"s","t","o","c","k","s">>,
    <<"s","h","a","r","e">>, <<"s","h","a","r","e","s">>, <<"t","r","a","d","i","n","g">>,
    <<"t","r","a","d","e","r">>, <<"i","n","v","e","s","t","m","e","n","t">>,
    <<"i","n","v","e","s","t","o","r">>, <<"i","n","v","e","s","t","i","n","g">>,
    <<"p","o","r","t","f","o","l","i","o">>, <<"b","a","n","k">>,
    <<"b","a","n","k","i","n","g">>, <<"b","a","n","k","e","r">>,
    <<"c","e","n","t","r","a","l"," ","b","a","n","k">>,
    <<"f","e","d","e","r","a","l"," ","r","e","s","e","r","v","e">>,
    <<"i","n","t","e","r","e","s","t"," ","r","a","t","e">>, <<"l","l","o","y","d","s">>,
    <<"b","a","r","c","l","a","y","s">>, <<"h","s","b","c">>, <<"n","a","t","w","e","s","t">>,
    <<"s","a","n","t","a","n","d","e","r">>, <<"c","i","t","i","b","a","n","k">>,
    <<"j","p","m","o","r","g","a","n">>, <<"w","a","l","l"," ","s","t","r","e","e","t">>,
    <<"b","o","n","d","s">>, <<"t","r","e","a","s","u","r","y">>, <<"e","q","u","i","t","y">>,
    <<"c","o","m","m","o","d","i","t","i","e","s">>, <<"f","o","r","e","x">>,
    <<"c","u","r","r","e","n","c","y">>,
    <<"e","x","c","h","a","n","g","e"," ","r","a","t","e">>,
    <<"b","u","l","l"," ","m","a","r","k","e","t">>,
    <<"b","e","a","r"," ","m","a","r","k","e","t">>, <<"n","a","s","d","a","q">>,
    <<"d","o","w"," ","j","o","n","e","s">>, <<"f","t","s","e">>,
    <<"s","&","p"," ","5","0","0">>, <<"s","&","p">>, <<"d","o","w">>, <<"i","n","d","e","x">>,
    <<"b","e","n","c","h","m","a","r","k">>, <<"i","n","f","l","a","t","i","o","n">>,
    <<"d","e","f","l","a","t","i","o","n">>, <<"g","d","p">>,
    <<"r","e","c","e","s","s","i","o","n">>, <<"d","e","p","r","e","s","s","i","o","n">>,
    <<"f","i","s","c","a","l">>, <<"m","o","n","e","t","a","r","y">>,
    <<"u","n","e","m","p","l","o","y","m","e","n","t">>,
    <<"e","m","p","l","o","y","m","e","n","t">>, <<"w","a","g","e">>,
    <<"s","a","l","a","r","y">>, <<"c","r","e","d","i","t">>, <<"d","e","b","t">>,
    <<"l","o","a","n">>, <<"m","o","r","t","g","a","g","e">>, <<"p","e","n","s","i","o","n">>,
    <<"h","e","d","g","e"," ","f","u","n","d">>,
    <<"m","u","t","u","a","l"," ","f","u","n","d">>, <<"e","t","f">>, <<"a","s","s","e","t">>,
    <<"c","a","p","i","t","a","l">>, <<"v","a","l","u","a","t","i","o","n">>, <<"i","p","o">>,
    <<"d","i","v","i","d","e","n","d">>,
    <<"c","r","y","p","t","o","c","u","r","r","e","n","c","y">>,
    <<"b","i","t","c","o","i","n">>, <<"e","t","h","e","r","e","u","m">>,
    <<"c","r","y","p","t","o">>,
    <<"b","l","o","c","k","c","h","a","i","n"," ","f","i","n","a","n","c","e">>,
    <<"f","i","n","t","e","c","h">>, <<"p","r","o","f","i","t">>,
    <<"r","e","v","e","n","u","e">>, <<"e","a","r","n","i","n","g","s">>, <<"l","o","s","s">>,
    <<"t","u","r","n","o","v","e","r">>, <<"q","u","a","r","t","e","r">>,
    <<"q","u","a","r","t","e","r","l","y">>,
    <<"a","n","n","u","a","l"," ","r","e","p","o","r","t">>,
    <<"b","a","l","a","n","c","e"," ","s","h","e","e","t">>,
    <<"c","a","s","h"," ","f","l","o","w">>, <<"a","n","a","l","y","s","t">>,
    <<"r","a","t","i","n","g">>,
    <<"w","e","a","l","t","h"," ","m","a","n","a","g","e","m","e","n","t">>,
    <<"i","n","s","u","r","a","n","c","e">>,
    <<"p","e","n","s","i","o","n"," ","f","u","n","d">>,
    <<"s","o","v","e","r","e","i","g","n"," ","w","e","a","l","t","h">>,
    <<"i","n","v","e","s","t","m","e","n","t"," ","b","a","n","k">>,
    <<"r","e","t","a","i","l"," ","b","a","n","k">>,
    <<"c","o","m","m","e","r","c","i","a","l"," ","b","a","n","k">>, <<"m","o","n","e","y">>,
    <<"c","a","s","h">>, <<"p","o","u","n","d">>, <<"d","o","l","l","a","r">>,
    <<"e","u","r","o">>, <<"y","e","n">>, <<"p","r","i","c","e">>, <<"c","o","s","t">>,
    <<"s","p","e","n","d","i","n","g">>, <<"s","a","v","i","n","g","s">>,
    <<"b","u","d","g","e","t">>, <<"t","a","x">>, <<"t","a","x","a","t","i","o","n">>
  >>

PoliticsKeywords ==
  <<
    <<"p","o","l","i","t","i","c","s">>, <<"p","o","l","i","t","i","c","a","l">>,
    <<"g","o","v","e","r","n","m","e","n","t">>, <<"p","a","r","l","i","a","m","e","n","t">>,
    <<"c","o","n","g","r","e","s","s">>, <<"s","e","n","a","t","e">>,
    <<"e","l","e","c","t","i","o","n">>, <<"v","o","t","e">>,
    <<"d","e","m","o","c","r","a","c","y">>, <<"p","r","e","s","i","d","e","n","t">>,
    <<"p","r","i","m","e"," ","m","i","n","i","s","t","e","r">>,
    <<"m","i","n","i","s","t","e","r">>, <<"p","o","l","i","c","y">>, <<"l","a","w">>,
    <<"l","e","g","i","s","l","a","t","i","o","n">>, <<"c","a","m","p","a","i","g","n">>,
    <<"p","a","r","t","y">>, <<"r","e","p","u","b","l","i","c","a","n">>,
    <<"d","e","m","o","c","r","a","t">>, <<"c","o","n","s","e","r","v","a","t","i","v","e">>,
    <<"l","a","b","o","u","r">>, <<"d","i","p","l","o","m","a","t","i","c">>,
    <<"t","r","e","a","t","y">>, <<"s","u","m","m","i","t">>,
    <<"w","h","i","t","e"," ","h","o","u","s","e">>,
    <<"d","o","w","n","i","n","g"," ","s","t","r","e","e","t">>,
    <<"c","a","p","i","t","o","l">>, <<"s","e","n","a","t","o","r">>,
    <<"r","e","p","r","e","s","e","n","t","a","t","i","v","e">>,
    <<"g","o","v","e","r","n","o","r">>, <<"m","a","y","o","r">>,
    <<"r","e","f","e","r","e","n","d","u","m">>, <<"b","a","l","l","o","t">>
  >>

EntertainmentKeywords ==
  <<
    <<"e","n","t","e","r","t","a","i","n","m","e","n","t">>, <<"m","o","v","i","e">>,
    <<"f","i","l","m">>, <<"c","i","n","e","m","a">>, <<"a","c","t","o","r">>,
    <<"a","c","t","r","e","s","s">>, <<"c","e","l","e","b","r","i","t","y">>,
    <<"m","u","s","i","c">>, <<"c","o","n","c","e","r","t">>, <<"a","l","b","u","m">>,
    <<"s","o","n","g">>, <<"s","i","n","g","e","r">>, <<"b","a","n","d">>, <<"t","v">>,
    <<"t","e","l","e","v","i","s","i","o","n">>, <<"s","h","o","w">>,
    <<"s","e","r","i","e","s">>, <<"n","e","t","f","l","i","x">>, <<"d","i","s","n","e","y">>,
    <<"h","o","l","l","y","w","o","o","d">>, <<"b","o","l","l","y","w","o","o","d">>,
    <<"o","s","c","a","r">>, <<"g","r","a","m","m","y">>, <<"e","m","m","y">>,
    <<"t","h","e","a","t","e","r">>, <<"t","h","e","a","t","r","e">>,
    <<"p","e","r","f","o","r","m","a","n","c","e">>, <<"a","r","t","i","s","t">>,
    <<"f","a","s","h","i","o","n">>, <<"s","t","y","l","e">>,
    <<"s","t","r","e","a","m","i","n","g">>, <<"p","r","e","m","i","e","r","e">>,
    <<"b","o","x"," ","o","f","f","i","c","e">>, <<"r","e","d"," ","c","a","r","p","e","t">>,
    <<"a","w","a","r","d","s">>, <<"n","o","m","i","n","a","t","i","o","n">>,
    <<"s","o","u","n","d","t","r","a","c","k">>
  >>

HealthKeywords ==
  <<
    <<"h","e","a","l","t","h">>, <<"m","e","d","i","c","a","l">>,
    <<"m","e","d","i","c","i","n","e">>, <<"d","o","c","t","o","r">>,
    <<"h","o","s","p","i","t","a","l">>, <<"p","a","t","i","e","n","t">>,
    <<"d","i","s","e","a","s","e">>, <<"v","i","r","u","s">>, <<"v","a","c","c","i","n","e">>,
    <<"c","o","v","i","d">>, <<"c","o","r","o","n","a","v","i","r","u","s">>,
    <<"p","a","n","d","e","m","i","c">>, <<"e","p","i","d","e","m","i","c">>,
    <<"h","e","a","l","t","h","c","a","r","e">>, <<"t","r","e","a","t","m","e","n","t">>,
    <<"d","r","u","g">>, <<"p","h","a","r","m","a","c","e","u","t","i","c","a","l">>,
    <<"s","u","r","g","e","r","y">>, <<"t","h","e","r","a","p","y">>,
    <<"m","e","n","t","a","l"," ","h","e","a","l","t","h">>, <<"f","i","t","n","e","s","s">>,
    <<"w","e","l","l","n","e","s","s">>, <<"n","u","t","r","i","t","i","o","n">>,
    <<"d","i","e","t">>, <<"o","b","e","s","i","t","y">>, <<"c","a","n","c","e","r">>,
    <<"d","i","a","b","e","t","e","s">>, <<"r","e","s","e","a","r","c","h">>,
    <<"c","l","i","n","i","c","a","l"," ","t","r","i","a","l">>,
    <<"s","y","m","p","t","o","m">>, <<"d","i","a","g","n","o","s","i","s">>,
    <<"c","u","r","e">>, <<"p","r","e","v","e","n","t","i","o","n">>,
    <<"i","m","m","u","n","e">>, <<"p","r","e","s","c","r","i","p","t","i","o","n">>
  >>

ScienceKeywords ==
  <<
    <<"s","c","i","e","n","c","e">>, <<"s","c","i","e","n","t","i","f","i","c">>,
    <<"r","e","s","e","a","r","c","h">>, <<"s","t","u","d","y">>,
    <<"u","n","i","v","e","r","s","i","t","y">>, <<"d","i","s","c","o","v","e","r","y">>,
    <<"e","x","p","e","r","i","m","e","n","t">>, <<"p","h","y","s","i","c","s">>,
    <<"c","h","e","m","i","s","t","r","y">>, <<"b","i","o","l","o","g","y">>,
    <<"a","s","t","r","o","n","o","m","y">>, <<"s","p","a","c","e">>, <<"n","a","s","a">>,
    <<"p","l","a","n","e","t">>, <<"c","l","i","m","a","t","e">>,
    <<"e","n","v","i","r","o","n","m","e","n","t">>, <<"e","v","o","l","u","t","i","o","n">>,
    <<"g","e","n","e">>, <<"d","n","a">>, <<"l","a","b","o","r","a","t","o","r","y">>,
    <<"p","r","o","f","e","s","s","o","r">>, <<"a","c","a","d","e","m","i","c">>,
    <<"s","c","i","e","n","t","i","s","t">>,
    <<"b","r","e","a","k","t","h","r","o","u","g","h">>,
    <<"i","n","n","o","v","a","t","i","o","n">>, <<"t","e","l","e","s","c","o","p","e">>,
    <<"m","i","c","r","o","s","c","o","p","e">>, <<"s","p","e","c","i","e","s">>
  >>

WorldKeywords ==
  <<
    <<"i","n","t","e","r","n","a","t","i","o","n","a","l">>, <<"g","l","o","b","a","l">>,
    <<"w","o","r","l","d">>, <<"f","o","r","e","i","g","n">>, <<"c","o","u","n","t","r","y">>,
    <<"n","a","t","i","o","n">>, <<"c","o","n","f","l","i","c","t">>, <<"w","a","r">>,
    <<"p","e","a","c","e">>, <<"u","n","i","t","e","d"," ","n","a","t","i","o","n","s">>,
    <<"r","e","f","u","g","e","e">>, <<"m","i","g","r","a","t","i","o","n">>,
    <<"b","o","r","d","e","r">>, <<"c","r","i","s","i","s">>, <<"e","m","b","a","s","s","y">>,
    <<"a","m","b","a","s","s","a","d","o","r">>, <<"s","a","n","c","t","i","o","n","s">>,
    <<"h","u","m","a","n","i","t","a","r","i","a","n">>,
    <<"g","e","o","p","o","l","i","t","i","c","a","l">>
  >>

\* self.category_keywords, in the order of the dict
category_keywords ==
  << [category |-> "Technology", keywords |-> TechnologyKeywords],
     [category |-> "Sports", keywords |-> SportsKeywords],
     [category |-> "Business", keywords |-> BusinessKeywords],
     [category |-> "Finance", keywords |-> FinanceKeywords],
     [category |-> "Politics", keywords |-> PoliticsKeywords],
     [category |-> "Entertainment", keywords |-> EntertainmentKeywords],
     [category |-> "Health", keywords |-> HealthKeywords],
     [category |-> "Science", keywords |-> ScienceKeywords],
     [category |-> "World", keywords |-> WorldKeywords] >>

\* self.exclusion_keywords
exclusion_keywords ==
  "Technology" :> << <<"f","o","o","d"," ","t","e","c","h">>, <<"m","e","d"," ","t","e","c","h">>, <<"h","e","a","l","t","h"," ","t","e","c","h">> >> @@
  "Sports" :> << <<"s","p","o","r","t","s"," ","b","a","r">>, <<"s","p","o","r","t","s"," ","b","e","t","t","i","n","g">>, <<"e","s","p","o","r","t","s">> >>

\* the source hints, in the order categorize checks them
SourceHints ==
  << [category |-> "Sports",
      hints |-> << <<"e","s","p","n">>,
                   <<"s","k","y","s","p","o","r","t","s">>,
                   <<"b","b","c","-","s","p","o","r","t">>,
                   <<"s","p","o","r","t","s",".","y","a","h","o","o">>,
                   <<"/","s","p","o","r","t","/">> >>],
     [category |-> "Technology",
      hints |-> << <<"t","e","c","h","c","r","u","n","c","h">>,
                   <<"t","h","e","v","e","r","g","e">>,
                   <<"w","i","r","e","d">>,
                   <<"a","r","s","t","e","c","h","n","i","c","a">> >>],
     [category |-> "Business",
      hints |-> << <<"r","e","u","t","e","r","s","/","b","u","s","i","n","e","s","s">>,
                   <<"f","t",".","c","o","m">>,
                   <<"b","l","o","o","m","b","e","r","g">> >>],
     [category |-> "Finance",
      hints |-> << <<"r","e","u","t","e","r","s","/","m","a","r","k","e","t","s">>,
                   <<"m","a","r","k","e","t","w","a","t","c","h">>,
                   <<"i","n","v","e","s","t","i","n","g",".","c","o","m">> >>] >>

\* the category of an article no category claims, and the least score that
\* lets a category claim one
General == "General"
MinScore == 2

WordChars ==
  { LowerChars[i] : i \in 1..26 } \cup { UpperChars[i] : i \in 1..26 }
  \cup { DigitChars[i] : i \in 1..10 } \cup {"_"}
IsWordChar(c) == c \in WordChars

\* \b at the gap in front of text[i]: a word character on exactly one side
WordBoundary(text, i) ==
  (i > 1 /\ IsWordChar(text[i - 1])) # (i <= Len(text) /\ IsWordChar(text[i]))

\* (mutant) the keyword is searched as a substring
SearchSubstring(keyword, text) == IsSubstring(keyword, text)

\* re.search(r'\b' + re.escape(keyword) + r'\b', text)
SearchWord(keyword, text) ==
  \E i \in 1..(Len(text) - Len(keyword) + 1) :
     /\ text[i] = keyword[1]
     /\ SubSeq(text, i, i + Len(keyword) - 1) = keyword
     /\ WordBoundary(text, i)
     /\ WordBoundary(text, i + Len(keyword))

\* the score of one category: one point per keyword of its list found in text
KeywordScore(keywords, text) ==
  Cardinality({ k \in 1..Len(keywords) : SearchWord(keywords[k], text) })

\* (mutant) no category is ever excluded
NeverExcluded(category, text) == FALSE

\* the exclusion check of one category
Excluded(category, text) ==
  /\ category \in DOMAIN exclusion_keywords
  /\ \E k \in 1..Len(exclusion_keywords[category]) :
        IsSubstring(exclusion_keywords[category][k], text)

\* d[key] = value on a dict kept as the list of its items in insertion order
DictSet(d, key, value) ==
  IF \E i \in 1..Len(d) : d[i].category = key
  THEN [i \in 1..Len(d) |->
          IF d[i].category = key THEN [category |-> key, score |-> value] ELSE d[i]]
  ELSE Append(d, [category |-> key, score |-> value])

\* (mutant) the last key with the greatest score
LastBestCategory(scores) ==
  scores[CHOOSE i \in 1..Len(scores) :
           /\ \A j \in 1..Len(scores) : scores[j].score <= scores[i].score
           /\ \A j \in (i + 1)..Len(scores) : scores[j].score < scores[i].score].category

\* max(category_scores, key=category_scores.get): the first key with the
\* greatest score
BestCategory(scores) ==
  scores[CHOOSE i \in 1..Len(scores) :
           /\ \A j \in 1..Len(scores) : scores[j].score <= scores[i].score
           /\ \A j \in 1..(i - 1) : scores[j].score < scores[i].score].category

\* f"{value}" of a str-or-None value
Format(v) == IF v = NoneVal THEN <<"N","o","n","e">> ELSE v

\* text = f"{article.get('title', '')} {article.get('summary', '')}".lower()
ArticleText(article) ==
  LowerStr(Format(DictGet(article.title, EmptyStr)) \o <<" ">>
           \o Format(DictGet(article.summary, EmptyStr)))

\* .lower() on a url or source that is None raises AttributeError
CategorizeRaises(article) ==
  \/ DictGet(article.url, EmptyStr) = NoneVal
  \/ DictGet(article.source, EmptyStr) = NoneVal

HasHint(hints, source_url, source) ==
  \E k \in 1..Len(hints) :
     IsSubstring(hints[k], source_url) \/ IsSubstring(hints[k], source)

\* the category of the first source hint found, "" when there is none
SourceHint(article) ==
  LET source_url == LowerStr(DictGet(article.url, EmptyStr))
      source == LowerStr(DictGet(article.source, EmptyStr))
      hits == { h \in 1..Len(SourceHints) :
                  HasHint(SourceHints[h].hints, source_url, source) }
  IN IF hits = {} THEN ""
     ELSE SourceHints[CHOOSE h \in hits : \A g \in hits : h <= g].category

\* one round of the loop over self.category_keywords
ScoreLoopBody(st, entry) ==
  LET score == KeywordScore(entry.keywords, st.text)
  IN IF ~Excluded(entry.category, st.text) /\ score > 0
     THEN [st EXCEPT !.scores = DictSet(@, entry.category, score)]
     ELSE st

\* (mutant) the scores of the call before are kept
KeepCategoryScores(prev) == prev

\* category_scores = {}
NewCategoryScores(prev) == <<>>

\* categorize(article): what the call returns or that it raises, and the
\* category_scores it has built (prev: those of the call before)
Categorize(article, prev) ==
  IF CategorizeRaises(article) THEN [outcome |-> "raise", scores |-> prev]
  ELSE IF SourceHint(article) # "" THEN [outcome |-> SourceHint(article), scores |-> prev]
  ELSE LET scores ==
             ForEach(ScoreLoopBody, category_keywords, 1, Len(category_keywords),
                     [text |-> ArticleText(article),
                      scores |-> NewCategoryScores(prev)]).scores
       IN [outcome |-> IF scores # <<>>
                          /\ \E i \in 1..Len(scores) :
                                /\ scores[i].category = BestCategory(scores)
                                /\ scores[i].score >= MinScore
                       THEN BestCategory(scores) ELSE General,
           scores |-> scores]

\* SentimentAnalyzer -----------------------------------------------------------
\* polarity and subjectivity are counted in units of 1/PolarityScale
PolarityScale == 10000
\* the thresholds 0.1 and -0.1 of the label, and the step of round(x, 3)
LabelThreshold == PolarityScale \div 10
RoundStep == PolarityScale \div 1000

ZeroRecord == [polarity |-> 0, subjectivity |-> 0, label |-> "neutral"]
\* the value of article['sentiment'] while the key is absent
NoSentiment == [polarity |-> 0, subjectivity |-> 0, label |-> "<missing>"]

\* round(x, 3); up tells which way the float that stands for a value half way
\* between two steps is rounded
Round3(x, up) ==
  LET a == IF x < 0 THEN 0 - x ELSE x
      r == a % RoundStep
      q == IF 2 * r < RoundStep \/ (2 * r = RoundStep /\ ~up)
           THEN a - r ELSE a - r + RoundStep
  IN IF x < 0 THEN 0 - q ELSE q

\* (mutant) the label is taken from the rounded polarity
LabelOfRounded(est) ==
  IF Round3(est.polarity, est.up) > LabelThreshold THEN "positive"
  ELSE IF Round3(est.polarity, est.up) < 0 - LabelThreshold THEN "negative"
  ELSE "neutral"

\* the label of the polarity the estimator computed
Label(est) ==
  IF est.polarity > LabelThreshold THEN "positive"
  ELSE IF est.polarity < 0 - LabelThreshold THEN "negative"
  ELSE "neutral"

\* what TextBlob answers for a text: it fails, or it computes a polarity and
\* a subjectivity
EstimateFails == [fails |-> TRUE, polarity |-> 0, subjectivity |-> 0, up |-> FALSE]
Estimate(polarity, subjectivity, up) ==
  [fails |-> FALSE, polarity |-> polarity, subjectivity |-> subjectivity, up |-> up]

NoAnalysis == [text |-> Missing, est |-> EstimateFails, record |-> ZeroRecord, made |-> FALSE]

\* a text that is not a str makes TextBlob raise TypeError
NotAStr == <<"<int>">>
Falsy(text) == text \in {NoneVal, EmptyStr, Missing}

\* (mutant) no except clause: the failure of the estimator leaves the call
RaiseOnFailure(record) == [raised |-> TRUE]

\* except Exception: return the zero record
CatchFailure(record) == record

\* analyze_sentiment(text), est being what the estimator answers
AnalyzeSentiment(text, est) ==
  IF Falsy(text) THEN ZeroRecord
  ELSE IF text = NotAStr \/ est.fails THEN CatchFailure(ZeroRecord)
  ELSE [polarity |-> Round3(est.polarity, est.up),
        subjectivity |-> Round3(est.subjectivity, est.up),
        label |-> Label(est)]

\* text = f"{article.get('title', '')} {article.get('summary', '')}"
SentimentText(article) ==
  Format(DictGet(article.title, EmptyStr)) \o <<" ">>
  \o Format(DictGet(article.summary, EmptyStr))

\* one round of the loop of analyze_batch; st is [articles, ests]
AnalyzeLoopBody(st, i) ==
  [st EXCEPT !.articles[i].sentiment =
     AnalyzeSentiment(SentimentText(st.articles[i]), st.ests[i])]

\* analyze_batch(articles), ests[i] being the estimator's answer for article i
AnalyzeBatch(articles, ests) ==
  ForEach(AnalyzeLoopBody, [i \in 1..Len(articles) |-> i], 1, Len(articles),
          [articles |-> articles, ests |-> ests]).articles

\* TrendAnalyzer ---------------------------------------------------------------
\* self.stop_words
stop_words ==
  { <<"t","h","e">>,
    <<"a">>,
    <<"a","n">>,
    <<"a","n","d">>,
    <<"o","r">>,
    <<"b","u","t">>,
    <<"i","n">>,
    <<"o","n">>,
    <<"a","t">>,
    <<"t","o">>,
    <<"f","o","r">>,
    <<"o","f">>,
    <<"w","i","t","h">>,
    <<"b","y">>,
    <<"f","r","o","m">>,
    <<"u","p">>,
    <<"a","b","o","u","t">>,
    <<"i","n","t","o">>,
    <<"t","h","r","o","u","g","h">>,
    <<"d","u","r","i","n","g">>,
    <<"i","s">>,
    <<"a","r","e">>,
    <<"w","a","s">>,
    <<"w","e","r","e">>,
    <<"b","e">>,
    <<"b","e","e","n">>,
    <<"b","e","i","n","g">>,
    <<"h","a","v","e">>,
    <<"h","a","s">>,
    <<"h","a","d">>,
    <<"d","o">>,
    <<"d","o","e","s">>,
    <<"d","i","d">>,
    <<"w","i","l","l">>,
    <<"w","o","u","l","d">>,
    <<"c","o","u","l","d">>,
    <<"s","h","o","u","l","d">>,
    <<"m","a","y">>,
    <<"m","i","g","h","t">>,
    <<"s","a","y","s">>,
    <<"s","a","i","d">>,
    <<"a","f","t","e","r">>,
    <<"n","e","w">>,
    <<"o","v","e","r">>,
    <<"m","o","r","e">>,
    <<"t","h","e","i","r">>,
    <<"t","h","i","s">>,
    <<"t","h","a","t">> }
\* the shortest token of extract_keywords
MinTokenLen == 3

\* the maximal runs of word characters of a text
RECURSIVE WordRunsFrom(_, _, _)
WordRunsFrom(s, cur, out) ==
  IF s = <<>> THEN (IF cur = <<>> THEN out ELSE Append(out, cur))
  ELSE IF ~IsWordChar(Head(s))
       THEN WordRunsFrom(Tail(s), <<>>, IF cur = <<>> THEN out ELSE Append(out, cur))
       ELSE WordRunsFrom(Tail(s), Append(cur, Head(s)), out)
WordRuns(s) == WordRunsFrom(s, <<>>, <<>>)
IsLowerLetter(c) == \E i \in 1..26 : LowerChars[i] = c

\* re.findall(r'\b[a-z]{n,}\b', text): between two word boundaries the
\* pattern matches a run of word characters only if all of it is lower-case
\* letters and it has at least n of them
FindAll(n, text) ==
  LET Matches(w) == Len(w) >= n /\ \A i \in 1..Len(w) : IsLowerLetter(w[i])
  IN SelectSeq(WordRuns(text), Matches)

\* (mutant) the stop words are kept
KeepStopWords(words) == words

\* words = [w for w in words if w not in self.stop_words]
FilterStopWords(words) ==
  LET Kept(w) == w \notin stop_words IN SelectSeq(words, Kept)

\* Counter(words): the words in the order of their first occurrence, each
\* with the number of its occurrences
CounterAdd(counter, w) ==
  IF \E i \in 1..Len(counter) : counter[i].word = w
  THEN LET i == CHOOSE i \in 1..Len(counter) : counter[i].word = w
       IN [counter EXCEPT ![i].count = @ + 1]
  ELSE Append(counter, [word |-> w, count |-> 1])
Counter(words) == ForEach(CounterAdd, words, 1, Len(words), <<>>)

\* (mutant) the first n entries in the order of the counter
FirstCommon(counter, n) == IF n <= 0 THEN <<>> ELSE Take(counter, n)

\* Counter.most_common(n): the n entries with the greatest counts, greatest
\* first, entries of equal count in the order of the counter; none for n <= 0
MostCommon(counter, n) ==
  LET m == Len(counter)
      rank == <<>> \o [i \in 1..m |->
                 1 + Cardinality({ j \in 1..m :
                       \/ counter[j].count > counter[i].count
                       \/ counter[j].count = counter[i].count /\ j < i })]
      sorted == [p \in 1..m |-> counter[CHOOSE i \in 1..m : rank[i] = p]]
  IN IF n <= 0 THEN <<>> ELSE Take(sorted, n)

\* extract_keywords(text, top_n)
ExtractKeywords(text, top_n) ==
  MostCommon(Counter(FilterStopWords(FindAll(MinTokenLen, LowerStr(text)))), top_n)

\* " ".join(parts)
RECURSIVE JoinWithSpace(_)
JoinWithSpace(parts) ==
  IF parts = <<>> THEN <<>>
  ELSE IF Len(parts) = 1 THEN parts[1]
  ELSE parts[1] \o <<" ">> \o JoinWithSpace(Tail(parts))

\* f"{article.get('title', '')} {article.get('summary', '')}"
TitleAndSummary(article) ==
  Format(DictGet(article.title, EmptyStr)) \o <<" ">>
    \o Format(DictGet(article.summary, EmptyStr))
AllText(articles) ==
  JoinWithSpace([i \in 1..Len(articles) |-> TitleAndSummary(articles[i])])

\* get_trending_topics(articles, top_n)
GetTrendingTopics(articles, top_n) == ExtractKeywords(AllText(articles), top_n)

\* config.CATEGORIES, and the labels of a sentiment record
CATEGORIES ==
  { "Technology", "Business", "Finance", "Politics", "Sports", "Entertainment",
    "Health", "Science", "World", "General" }
Labels == { "positive", "negative", "neutral" }

\* the characters of the names of config.CATEGORIES
CategoryChars ==
  "Technology" :> <<"T","e","c","h","n","o","l","o","g","y">> @@
  "Business" :> <<"B","u","s","i","n","e","s","s">> @@
  "Finance" :> <<"F","i","n","a","n","c","e">> @@
  "Politics" :> <<"P","o","l","i","t","i","c","s">> @@
  "Sports" :> <<"S","p","o","r","t","s">> @@
  "Entertainment" :> <<"E","n","t","e","r","t","a","i","n","m","e","n","t">> @@
  "Health" :> <<"H","e","a","l","t","h">> @@
  "Science" :> <<"S","c","i","e","n","c","e">> @@
  "World" :> <<"W","o","r","l","d">> @@
  "General" :> <<"G","e","n","e","r","a","l">>
\* category_filter = None if selected_category == "All" else selected_category,
\* selected_category being one of ["All"] + CATEGORIES
CategoryFilters == {NoneVal} \cup { CategoryChars[c] : c \in CATEGORIES }

\* ConversationalAgent ---------------------------------------------------------
\* a response is the string a handler returns, kept as the handler's name and
\* the data the string is formatted from; a handler may raise instead
Str(handler, content) == [kind |-> "str", handler |-> handler, content |-> content]
RaisedIn(handler) == [kind |-> "raised", handler |-> handler, content |-> <<>>]

\* any(phrase in query for phrase in phrases)
AnyIn(phrases, query) == \E p \in 1..Len(phrases) : IsSubstring(phrases[p], query)

\* the phrase lists of _generate_response, by intent
Phrases ==
  [ greeting |->
      << <<"h","e","l","l","o">>, <<"h","i">>, <<"h","e","y">>, <<"g","r","e","e","t","i","n","g","s">> >>,
    help |->
      << <<"h","e","l","p">>, <<"w","h","a","t"," ","c","a","n"," ","y","o","u"," ","d","o">>, <<"c","o","m","m","a","n","d","s">> >>,
    top_stories |->
      << <<"t","o","p"," ","s","t","o","r","i","e","s">>, <<"l","a","t","e","s","t"," ","n","e","w","s">>, <<"h","e","a","d","l","i","n","e","s">>, <<"w","h","a","t","'","s"," ","n","e","w">> >>,
    sentiment |->
      << <<"s","e","n","t","i","m","e","n","t">>, <<"f","e","e","l","i","n","g">>, <<"m","o","o","d">> >>,
    trending |->
      << <<"t","r","e","n","d","i","n","g">>, <<"p","o","p","u","l","a","r">>, <<"h","o","t">>, <<"v","i","r","a","l">> >>,
    summarize |->
      << <<"s","u","m","m","a","r","i","z","e">>, <<"s","u","m","m","a","r","y">>, <<"b","r","i","e","f">> >>,
    search |->
      << <<"a","b","o","u","t">>, <<"f","i","n","d">>, <<"s","e","a","r","c","h">> >>,
    count |->
      << <<"h","o","w"," ","m","a","n","y">>, <<"n","u","m","b","e","r"," ","o","f">>, <<"c","o","u","n","t">> >> ]
QueryCategories ==
  << <<"t","e","c","h","n","o","l","o","g","y">>,
     <<"s","p","o","r","t","s">>,
     <<"b","u","s","i","n","e","s","s">>,
     <<"f","i","n","a","n","c","e">>,
     <<"p","o","l","i","t","i","c","s">>,
     <<"e","n","t","e","r","t","a","i","n","m","e","n","t">>,
     <<"h","e","a","l","t","h">>,
     <<"s","c","i","e","n","c","e">>,
     <<"w","o","r","l","d">> >>

\* _extract_topic -----------------------------------------------------------------
\* the end of the run of characters satisfying Test that starts at i (i - 1
\* when there is none)
RECURSIVE RunEnd(_, _, _)
RunEnd(Test(_), s, i) ==
  IF i <= Len(s) /\ Test(s[i]) THEN RunEnd(Test, s, i + 1) ELSE i - 1
\* re.search(word + r'\s+([a-z\s]+)', query) with the match starting at i: the
\* group, or None; the white space gives back its last character to the
\* group when no lower-case letter follows it
GroupAt(word, query, i) ==
  IF i + Len(word) - 1 > Len(query) \/ SubSeq(query, i, i + Len(word) - 1) # word
  THEN NoneVal
  ELSE LET TopicChar(c) == IsLowerLetter(c) \/ IsSpace(c)
           from == i + Len(word)
           spaces == RunEnd(IsSpace, query, from)
           group == RunEnd(TopicChar, query, spaces + 1)
       IN IF spaces < from THEN NoneVal
          ELSE IF group > spaces THEN SubSeq(query, spaces + 1, group)
          ELSE IF spaces > from THEN SubSeq(query, spaces, spaces)
          ELSE NoneVal
\* the group of the leftmost match, or None
SearchGroup(word, query) ==
  IF \E i \in 1..Len(query) : GroupAt(word, query, i) # NoneVal
  THEN GroupAt(word, query,
               CHOOSE i \in 1..Len(query) :
                  /\ GroupAt(word, query, i) # NoneVal
                  /\ \A j \in 1..(i - 1) : GroupAt(word, query, j) = NoneVal)
  ELSE NoneVal
TopicPatterns == << <<"a","b","o","u","t">>, <<"o","n">>, <<"r","e","g","a","r","d","i","n","g">>, <<"f","i","n","d">>, <<"s","e","a","r","c","h">> >>
TrailingWords == << <<"n","e","w","s">>, <<"a","r","t","i","c","l","e","s">>, <<"s","t","o","r","i","e","s">> >>
\* re.sub(r'\s+(news|articles|stories)$', '', topic)
DropTrailingWord(topic) ==
  IF \E t \in 1..Len(TrailingWords) :
        LET w == TrailingWords[t] IN
        /\ Len(topic) > Len(w)
        /\ SubSeq(topic, Len(topic) - Len(w) + 1, Len(topic)) = w
        /\ IsSpace(topic[Len(topic) - Len(w)])
  THEN LET t == CHOOSE t \in 1..Len(TrailingWords) :
                  LET w == TrailingWords[t] IN
                  /\ Len(topic) > Len(w)
                  /\ SubSeq(topic, Len(topic) - Len(w) + 1, Len(topic)) = w
                  /\ IsSpace(topic[Len(topic) - Len(w)])
       IN RStrip(SubSeq(topic, 1, Len(topic) - Len(TrailingWords[t])))
  ELSE topic
\* the topic of the first pattern that matches, or None
RECURSIVE ExtractTopicFrom(_, _)
ExtractTopicFrom(query, p) ==
  IF p > Len(TopicPatterns) THEN NoneVal
  ELSE IF SearchGroup(TopicPatterns[p], query) # NoneVal
       THEN DropTrailingWord(Strip(SearchGroup(TopicPatterns[p], query)))
       ELSE ExtractTopicFrom(query, p + 1)
ExtractTopic(query) == ExtractTopicFrom(query, 1)

\* the handlers -------------------------------------------------------------------
TopLimit == 5
HeadlineLimit == 3
TrendingLimit == 10
RouterTokenLen == 4
RouterStopWords ==
  { <<"t","h","e">>,
    <<"a">>,
    <<"a","n">>,
    <<"a","n","d">>,
    <<"o","r">>,
    <<"b","u","t">>,
    <<"i","n">>,
    <<"o","n">>,
    <<"a","t">>,
    <<"t","o">>,
    <<"f","o","r">>,
    <<"o","f">>,
    <<"a","s">>,
    <<"b","y">>,
    <<"w","i","t","h">>,
    <<"i","s">>,
    <<"a","r","e">>,
    <<"w","a","s">>,
    <<"w","e","r","e">>,
    <<"b","e","e","n">>,
    <<"b","e">>,
    <<"h","a","v","e">>,
    <<"h","a","s">>,
    <<"h","a","d">>,
    <<"d","o">>,
    <<"d","o","e","s">>,
    <<"d","i","d">>,
    <<"w","i","l","l">>,
    <<"w","o","u","l","d">>,
    <<"c","o","u","l","d">>,
    <<"s","h","o","u","l","d">>,
    <<"m","a","y">>,
    <<"m","i","g","h","t">> }

Titles(articles, n) ==
  [i \in 1..(IF Len(articles) <= n THEN Len(articles) ELSE n) |->
     Format(DictGet(articles[i].title, NoTitle))]
\* sum(1 for a in articles if a.get('sentiment', {}).get('label') == label)
Distribution(articles) ==
  LET CountLabel(label) ==
        Cardinality({ i \in 1..Len(articles) : articles[i].sentiment.label = label })
  IN
  [positive |-> CountLabel("positive"),
   negative |-> CountLabel("negative"),
   neutral  |-> CountLabel("neutral")]

HandleTopStories(articles) ==
  IF articles = <<>> THEN Str("top_stories", <<>>)
  ELSE Str("top_stories", Titles(articles, TopLimit))

\* the articles with a.get('category', '').lower() == category
HandleCategoryQuery(category, articles) ==
  LET InIt(a) == LowerStr(CategoryChars[a.category]) = category
      found == SelectSeq(articles, InIt)
  IN IF found = <<>> THEN Str("category_query", <<category>>)
     ELSE Str("category_query",
              <<category, Len(found), Distribution(found), Titles(found, HeadlineLimit)>>)

\* topic.lower() in a.get('title', '').lower() or
\* topic.lower() in a.get('summary', '').lower(): .lower() raises on None
RelevantRaises(topic, articles) ==
  LET MatchRaises(article) ==
        \/ article.title = NoneVal
        \/ /\ ~IsSubstring(LowerStr(topic), LowerStr(DictGet(article.title, EmptyStr)))
           /\ article.summary = NoneVal
  IN \E i \in 1..Len(articles) : MatchRaises(articles[i])
Relevant(topic, articles) ==
  LET About(article) ==
        \/ IsSubstring(LowerStr(topic), LowerStr(DictGet(article.title, EmptyStr)))
        \/ IsSubstring(LowerStr(topic), LowerStr(DictGet(article.summary, EmptyStr)))
  IN SelectSeq(articles, About)

\* avg_polarity > 0.1, < -0.1, or neither, avg_polarity being the sum of the
\* polarities over their number
Overall(articles) ==
  LET RECURSIVE SumPolarity(_)
      SumPolarity(rest) ==
        IF rest = <<>> THEN 0
        ELSE Head(rest).sentiment.polarity + SumPolarity(Tail(rest))
      total == SumPolarity(articles)
  IN IF total * 10 > Len(articles) * PolarityScale THEN "positive"
     ELSE IF total * 10 < 0 - (Len(articles) * PolarityScale) THEN "negative"
     ELSE "neutral"

HandleSentimentQuery(query, articles) ==
  IF articles = <<>> THEN Str("sentiment_query", <<>>)
  ELSE LET topic == ExtractTopic(query) IN
       IF Truthy(topic)
       THEN IF RelevantRaises(topic, articles) THEN RaisedIn("sentiment_query")
            ELSE IF Relevant(topic, articles) = <<>> THEN Str("sentiment_query", <<topic>>)
            ELSE Str("sentiment_query",
                     <<topic, Overall(Relevant(topic, articles)),
                       Distribution(Relevant(topic, articles))>>)
       ELSE Str("sentiment_query",
                <<EmptyStr, Overall(articles), Distribution(articles)>>)

\* the words of one article are re.findall(r'\b[a-z]{4,}\b', text.lower())
\* without the stop words of the handler
HandleTrending(articles) ==
  LET Kept(w) == w \notin RouterStopWords
      TrendingWords(all_words, article) ==
        all_words
          \o SelectSeq(FindAll(RouterTokenLen, LowerStr(TitleAndSummary(article))), Kept)
  IN
  IF articles = <<>> THEN Str("trending", <<>>)
  ELSE Str("trending",
           MostCommon(Counter(ForEach(TrendingWords, articles, 1, Len(articles), <<>>)),
                      TrendingLimit))

HandleTopicSearch(topic, articles, handler) ==
  IF RelevantRaises(topic, articles) THEN RaisedIn(handler)
  ELSE IF Relevant(topic, articles) = <<>> THEN Str(handler, <<topic>>)
  ELSE Str(handler, <<topic, Len(Relevant(topic, articles)),
                      Titles(Relevant(topic, articles), TopLimit)>>)

\* the first category named in the query, or None
FirstCategoryIn(query) ==
  IF AnyIn(QueryCategories, query)
  THEN QueryCategories[CHOOSE c \in 1..Len(QueryCategories) :
          /\ IsSubstring(QueryCategories[c], query)
          /\ \A d \in 1..(c - 1) : ~IsSubstring(QueryCategories[d], query)]
  ELSE NoneVal

HandleSummarize(query, articles) ==
  IF FirstCategoryIn(query) # NoneVal
  THEN [HandleCategoryQuery(FirstCategoryIn(query), articles) EXCEPT !.handler = "summarize"]
  ELSE [HandleTopStories(articles) EXCEPT !.handler = "summarize"]

\* Counter(categories).most_common()
HandleCountQuery(articles) ==
  LET CategoryWords(seen, article) == CounterAdd(seen, article.category)
      counter == ForEach(CategoryWords, articles, 1, Len(articles), <<>>)
  IN Str("count_query", <<Len(articles), MostCommon(counter, Len(counter))>>)

HandleGeneralQuery(query, articles) ==
  LET keywords == FindAll(RouterTokenLen, query) IN
  IF keywords = <<>> THEN Str("general_query", <<>>)
  ELSE HandleTopicSearch(keywords[1], articles, "general_query")

\* _generate_response(query): the first intent whose phrases are in the query
GenerateResponse(query, articles) ==
  IF AnyIn(Phrases.greeting, query) THEN Str("greeting", <<>>)
  ELSE IF AnyIn(Phrases.help, query) THEN Str("help", <<>>)
  ELSE IF AnyIn(Phrases.top_stories, query) THEN HandleTopStories(articles)
  ELSE IF FirstCategoryIn(query) # NoneVal
       THEN HandleCategoryQuery(FirstCategoryIn(query), articles)
  ELSE IF AnyIn(Phrases.sentiment, query) THEN HandleSentimentQuery(query, articles)
  ELSE IF AnyIn(Phrases.trending, query) THEN HandleTrending(articles)
  ELSE IF AnyIn(Phrases.summarize, query) THEN HandleSummarize(query, articles)
  ELSE IF AnyIn(Phrases.search, query) /\ Truthy(ExtractTopic(query))
       THEN HandleTopicSearch(ExtractTopic(query), articles, "topic_search")
  ELSE IF AnyIn(Phrases.count, query) THEN HandleCountQuery(articles)
  ELSE HandleGeneralQuery(query, articles)

\* the articles handed to the categorizer
CatArticle(title, summary, url, source) ==
  [title |-> title, summary |-> summary, url |-> url, source |-> source,
   category |-> Missing, sentiment |-> NoSentiment]
TitleFootball == <<"F","o","o","t","b","a","l","l"," ","m","a","t","c","h">>
TitleSoftware == <<"A","I"," ","s","o","f","t","w","a","r","e">>
TitleStocks == <<"T","e","c","h"," ","s","t","o","c","k","s">>
SummaryApp == <<"N","e","w"," ","a","p","p">>
UrlEspn == <<"e","s","p","n",".","c","o","m","/","a">>
CatPool ==
  { CatArticle(TitleFootball, Missing, UrlX, SourceName),
    CatArticle(TitleSoftware, SummaryApp, UrlY, SourceName),
    CatArticle(TitleStocks, EmptyStr, UrlZ, SourceName),
    CatArticle(TitleSoftware, SummaryApp, UrlEspn, SourceName),
    CatArticle(TitleFootball, Missing, UrlX, NoneVal) }

\* the cases of categorize: titles, summaries and url/source pairs, combined
TitleBakery == <<"L","o","c","a","l"," ","b","a","k","e","r","y"," ","o","p","e","n","s">>
TitleHappy == <<"H","a","p","p","y"," ","s","a","i","d">>
TitleOneSport == <<"F","o","o","t","b","a","l","l">>
TitleOneTech == <<"T","e","c","h">>
TitleEsports == <<"E","s","p","o","r","t","s"," ","f","o","o","t","b","a","l","l"," ","m","a","t","c","h">>
TitleTechSports == <<"S","o","f","t","w","a","r","e"," ","d","a","t","a"," ","f","o","o","t","b","a","l","l"," ","m","a","t","c","h">>
TitleBusinessFinance == <<"C","o","m","p","a","n","y"," ","m","e","r","g","e","r"," ","s","t","o","c","k"," ","b","a","n","k">>
TitleInflation == <<"I","n","f","l","a","t","i","o","n">>
SummaryFootball == <<"F","o","o","t","b","a","l","l"," ","m","a","t","c","h">>
UrlBusinessFinance == <<"f","t",".","c","o","m","/","m","a","r","k","e","t","w","a","t","c","h">>
SourceTechCrunch == <<"T","e","c","h","C","r","u","n","c","h">>
CaseTitles ==
  { TitleBakery, TitleHappy, TitleFootball, TitleOneSport, TitleOneTech, TitleEsports,
    TitleTechSports, TitleBusinessFinance, TitleInflation, TitleSoftware }
CaseSummaries == { Missing, SummaryFootball }
CaseOrigins ==
  { <<UrlX, SourceName>>, <<UrlEspn, SourceName>>, <<UrlX, SourceTechCrunch>>,
    <<UrlEspn, SourceTechCrunch>>, <<UrlBusinessFinance, SourceName>>,
    <<UrlX, NoneVal>>, <<UrlEspn, NoneVal>> }
CatCases ==
  { CatArticle(title, summary, origin[1], origin[2]) :
      title \in CaseTitles, summary \in CaseSummaries, origin \in CaseOrigins }

\* what the sources deliver to the pipeline of the application
PipeApiPool ==
  { Raw(UrlX, TitleFootball, SummaryPlain, SourceName, Date(1, 10, "utc")),
    Raw(UrlY, TitleBakery, Missing, NullName, Date(1, 9, "utc")),
    Raw(UrlZ, TitleSoftware, NoneVal, Missing, Date(2, 9, "utc")) }
PipeRssPool ==
  { Raw(UrlX, TitleOneTech, SummaryFootball, Missing, Date(1, 8, "utc")),
    Raw(UrlEspn, TitleBakery, SummaryPlain, Missing, Date(2, 8, "utc")) }

\* what the estimator can answer
Polarities ==
  { 0 - PolarityScale, -1010, -1005, -1004, -1000, -996, 0, 996, 1000, 1004, 1005,
    1010, PolarityScale }
Subjectivities == { 0, 5004 }
Estimates ==
  {EstimateFails}
  \cup { Estimate(p, s, up) :
           p \in Polarities, s \in Subjectivities,
           up \in BOOLEAN }
PipeEstimates == { EstimateFails, Estimate(0, 0, FALSE), Estimate(5004, 5004, FALSE) }
TextGood == <<"G","o","o","d"," ","n","e","w","s">>
TextBad == <<"B","a","d"," ","n","e","w","s">>
SentimentTexts ==
  { NoneVal, EmptyStr, NotAStr, TitleBlank, TextGood, TextBad, TitleFootball }
\* a text without a word has no polarity
EstimatesFor(text) ==
  IF text = TitleBlank THEN { EstimateFails, Estimate(0, 0, FALSE) } ELSE Estimates

VARIABLES
  pc,            \* "idle", "api", "rss", "done" or "deduped"
  pool,          \* "full", "small", "pipe" or "long": the entries the sources can
                 \* deliver ("none" when no fetch is made)
  seen_urls,     \* NewsFetcher.seen_urls
  all_articles,  \* fetch_all's local list
  feedIdx,       \* the feed the loop of fetch_all is at
  responses,     \* what the sources answered in this call: API, then feeds
  result,        \* what the last fetch_all returned or raised
  prevSeen,      \* seen_urls as the last fetch_all call found it
  dedupArg,      \* the argument of the last direct _deduplicate call
  dedupRet,      \* and its result
  batch,         \* the article dicts handed to the categorizer
  category_scores, \* categorize's dict of scores, as the last call built it
  calls,         \* the categorize calls made so far, with what they returned
  analysis,      \* the last analyze_sentiment call: its text, the estimator's
                 \* answer and the record returned
  news_api_key,  \* NewsFetcher.news_api_key: TRUE when a key is configured
  category_filter, \* the category argument of fetch_all
  params,        \* the params of the last request to the API
  extraction,    \* the last extract_keywords call: its arguments and result
  self_articles, \* ConversationalAgent.articles
  conversation_history, \* ConversationalAgent.conversation_history
  reply          \* what the last process_query call returned or raised

fetcherVars == <<pc, pool, seen_urls, all_articles, feedIdx, responses, result,
                 prevSeen, dedupArg, dedupRet, news_api_key, category_filter, params>>
catVars == <<batch, category_scores, calls>>
sentimentVars == <<analysis>>
trendVars == <<extraction>>
agentVars == <<self_articles, conversation_history, reply>>
vars == <<fetcherVars, catVars, sentimentVars, trendVars, agentVars>>

Failed == [ok |-> FALSE, entries |-> <<>>]
Answer(entries) == [ok |-> TRUE, entries |-> entries]

CountBody(n, resp) == n + Len(resp.entries)
CountEntries(resps) == ForEach(CountBody, resps, 1, Len(resps), 0)
Remaining ==
  IF CountEntries(responses) >= MaxEntries THEN 0
  ELSE MaxEntries - CountEntries(responses)

\* what a source can answer at this point of the call; a feed that answers
\* with no entry is not distinguished from a feed that fails
SmallAnswers(entries) == { Answer(e) : e \in Lists(entries, Remaining) \ {<<>>} }
ApiAnswers ==
  IF ~news_api_key THEN {Failed} ELSE
  {Failed, Answer(<<>>)}
  \cup SmallAnswers(IF pool = "full" THEN ApiPool
                    ELSE IF pool = "pipe" THEN PipeApiPool
                    ELSE IF pool = "long" THEN LongPool ELSE SmallPool)
  \cup { Answer(BulkEntries(n, p)) :
           n \in (IF pool = "full" THEN (FetchCap - 1)..(FetchCap + BulkExtra) ELSE {}),
           p \in 1..BulkPatterns }
RssAnswers ==
  {Failed}
  \cup SmallAnswers(IF pool = "full" THEN RssPool
                    ELSE IF pool = "pipe" THEN PipeRssPool
                    ELSE IF pool = "long" THEN LongPool ELSE SmallPool)
  \cup { Answer(BulkEntries(FeedEntryCap + 1, p)) :
           p \in (IF pool = "full" /\ responses = <<Failed>>
                  THEN 1..BulkPatterns ELSE {}) }

InitFetcher ==
  /\ pc = "idle"
  /\ seen_urls = {}
  /\ all_articles = <<>>
  /\ feedIdx = 0
  /\ responses = <<>>
  /\ result = NoResult
  /\ prevSeen = {}
  /\ dedupArg = <<>>
  /\ dedupRet = NoResult
  /\ params = NoRequest

\* nothing has been extracted yet, and no query has been answered yet
NoExtraction ==
  [via |-> "none", articles |-> <<>>, text |-> Missing, top_n |-> 0,
   keywords |-> <<>>, made |-> FALSE]
NoReply == [kind |-> "none", handler |-> "none", content |-> <<>>]

\* a key of the API is configured and fetch_all is called without a category
InitNoFilter ==
  /\ news_api_key = TRUE
  /\ category_filter = NoneVal
\* no keyword has been extracted and no agent has been asked
InitIdle ==
  /\ extraction = NoExtraction
  /\ self_articles = <<>>
  /\ conversation_history = <<>>
  /\ reply = NoReply

\* no article has been handed to the categorizer
InitCommon ==
  /\ InitFetcher
  /\ InitNoFilter
  /\ InitIdle
  /\ batch = <<>>
  /\ category_scores = <<>>
  /\ calls = <<>>
  /\ analysis = NoAnalysis

Init == pool = "full" /\ InitCommon
InitCalls == pool = "small" /\ InitCommon
InitPipeline == pool = "pipe" /\ InitCommon

\* fetch_all -------------------------------------------------------------------
\* (mutant) the set is kept from the call before
KeepSeenUrls(seen) == seen

\* self.seen_urls = set()
ResetSeenUrls(seen) == {}

FetchAllBegin ==
  /\ pc = "idle"
  /\ pc' = "api"
  /\ params' = NoRequest
  /\ all_articles' = <<>>
  /\ prevSeen' = seen_urls
  /\ seen_urls' = ResetSeenUrls(seen_urls)
  /\ responses' = <<>>
  /\ result' = NoResult
  /\ feedIdx' = 0
  /\ UNCHANGED <<news_api_key, category_filter, pool, dedupArg, dedupRet, catVars, sentimentVars, trendVars, agentVars>>

\* api_articles = self.fetch_from_news_api(category); all_articles.extend(...)
FetchAllApi ==
  /\ pc = "api"
  /\ \E resp \in ApiAnswers :
       LET r == FetchFromNewsApi(resp, seen_urls) IN
       /\ all_articles' = all_articles \o r.articles
       /\ seen_urls' = r.seen
       /\ responses' = Append(responses, resp)
  /\ params' = IF news_api_key THEN ApiParams(category_filter) ELSE params
  /\ pc' = "rss"
  /\ feedIdx' = 1
  /\ UNCHANGED <<news_api_key, category_filter, pool, result, prevSeen, dedupArg, dedupRet, catVars, sentimentVars, trendVars, agentVars>>

\* one round of the loop over self.rss_feeds
FetchAllRss ==
  /\ pc = "rss"
  /\ feedIdx <= NumFeeds
  /\ \E resp \in RssAnswers :
       LET r == FetchFromRss(resp, FeedTitle(feedIdx), seen_urls) IN
       /\ all_articles' = all_articles \o r.articles
       /\ seen_urls' = r.seen
       /\ responses' = Append(responses, resp)
  /\ feedIdx' = feedIdx + 1
  /\ UNCHANGED <<news_api_key, category_filter, params, pc, pool, result, prevSeen, dedupArg, dedupRet, catVars, sentimentVars, trendVars, agentVars>>

\* deduplicate, sort, truncate and return
FetchAllEnd ==
  /\ pc = "rss"
  /\ feedIdx > NumFeeds
  /\ result' = FinishFetchAll(all_articles)
  /\ pc' = "done"
  /\ UNCHANGED <<news_api_key, category_filter, params, pool, seen_urls, all_articles, feedIdx, responses, prevSeen,
                 dedupArg, dedupRet, catVars, sentimentVars, trendVars, agentVars>>

\* the caller takes the result; the fetcher is ready for the next call
Return ==
  /\ pc = "done"
  /\ pc' = "idle"
  /\ all_articles' = <<>>
  /\ responses' = <<>>
  /\ result' = NoResult
  /\ feedIdx' = 0
  /\ UNCHANGED <<news_api_key, category_filter, params, pool, seen_urls, prevSeen, dedupArg, dedupRet, catVars, sentimentVars, trendVars, agentVars>>

\* a direct call of fetch_from_rss or fetch_from_news_api by a caller
CallFetchFromRss ==
  /\ pc = "idle"
  /\ \E resp \in { Answer(e) : e \in Lists(SmallPool, 1) } :
       seen_urls' = FetchFromRss(resp, FeedTitle(1), seen_urls).seen
  /\ UNCHANGED <<news_api_key, category_filter, params, pc, pool, all_articles, feedIdx, responses, result, prevSeen,
                 dedupArg, dedupRet, catVars, sentimentVars, trendVars, agentVars>>

CallFetchFromNewsApi ==
  /\ pc = "idle"
  /\ \E resp \in { Answer(e) : e \in Lists(SmallPool, 1) } :
       seen_urls' = FetchFromNewsApi(resp, seen_urls).seen
  /\ params' = ApiParams(NoneVal)
  /\ UNCHANGED <<news_api_key, category_filter, pc, pool, all_articles, feedIdx, responses, result, prevSeen,
                 dedupArg, dedupRet, catVars, sentimentVars, trendVars, agentVars>>

\* a direct call of _deduplicate on a list of articles
Article(url, title) ==
  [title |-> title, summary |-> SummaryPlain, url |-> url, source |-> SourceName,
   published |-> IsoFormat([day |-> 1, hour |-> 9, off |-> "utc"])]
TitleElevenB == <<"a"," ","a"," ","a"," ","a"," ","a"," ","a"," ","a"," ","a"," ","a"," ","a"," ","b">>
TitleElevenC == <<"A"," ","a"," ","a"," ","a"," ","a"," ","a"," ","a"," ","a"," ","a"," ","a"," ","c">>
TitleAbC == <<"a","b"," ","c">>
TitleABc == <<"a"," ","b","c">>
ArticlePool ==
  { Article(UrlX, TitleFoo), Article(UrlX, TitleBar),
    Article(UrlY, TitleFooVariant), Article(UrlY, EmptyStr),
    Article(UrlZ, TitleBlank), Article(EmptyStr, TitleFoo),
    Article(UrlZ, TitleElevenB), Article(UrlY, TitleElevenC),
    Article(EmptyStr, TitleAbC), Article(UrlX, TitleABc),
    Article(UrlZ, NoneVal) }

DeduplicateCall ==
  /\ pc = "idle"
  /\ \E articles \in Lists(ArticlePool, MaxDedupLen) :
       /\ dedupArg' = articles
       /\ dedupRet' = IF DedupRaises(articles) THEN Raised
                      ELSE Returned(Deduplicate(articles))
  /\ pc' = "deduped"
  /\ UNCHANGED <<news_api_key, category_filter, params, pool, seen_urls, all_articles, feedIdx, responses, result,
                 prevSeen, catVars, sentimentVars, trendVars, agentVars>>

\* ArticleCategorizer ------------------------------------------------------------
\* the fields of an article that a call was made on
Fields(article) ==
  [title |-> article.title, summary |-> article.summary, url |-> article.url,
   source |-> article.source]
Call(via, article, outcome) ==
  [via |-> via, article |-> Fields(article), outcome |-> outcome]

InitCategorize ==
  /\ pool = "none"
  /\ InitFetcher
  /\ InitNoFilter
  /\ InitIdle
  /\ batch \in Lists(CatPool, MaxBatch) \ {<<>>}
  /\ category_scores = <<>>
  /\ calls = <<>>
  /\ analysis = NoAnalysis

\* a caller runs categorize on one article of the batch
CallCategorize ==
  /\ Len(calls) < MaxCalls
  /\ \E i \in 1..Len(batch) :
       LET r == Categorize(batch[i], category_scores) IN
       /\ category_scores' = r.scores
       /\ calls' = Append(calls, Call("categorize", batch[i], r.outcome))
  /\ UNCHANGED <<fetcherVars, batch, sentimentVars, trendVars, agentVars>>

\* one round of the loop of categorize_batch: article['category'] = ...
BatchLoopBody(st, i) ==
  IF st.raised THEN st
  ELSE LET r == Categorize(st.articles[i], st.scores) IN
       [articles |-> IF r.outcome = "raise" THEN st.articles
                     ELSE [st.articles EXCEPT ![i].category = r.outcome],
        scores |-> r.scores,
        raised |-> r.outcome = "raise",
        calls |-> Append(st.calls, Call("categorize_batch", st.articles[i], r.outcome))]

\* categorize_batch(articles)
CategorizeBatch(articles, prev, log) ==
  ForEach(BatchLoopBody, [i \in 1..Len(articles) |-> i], 1, Len(articles),
          [articles |-> articles, scores |-> prev, raised |-> FALSE, calls |-> log])

CallCategorizeBatch ==
  /\ Len(calls) < MaxCalls
  /\ LET r == CategorizeBatch(batch, category_scores, calls) IN
       /\ batch' = r.articles
       /\ category_scores' = r.scores
       /\ calls' = r.calls
  /\ UNCHANGED <<fetcherVars, sentimentVars, trendVars, agentVars>>

FetchAll == FetchAllBegin \/ FetchAllApi \/ FetchAllRss \/ FetchAllEnd

Next == FetchAll \/ DeduplicateCall

NextCalls == FetchAll \/ Return \/ CallFetchFromRss \/ CallFetchFromNewsApi

Spec == Init /\ [][Next]_vars

\* fetch_all is called with the category the presentation layer selected,
\* with or without a configured key
InitFilter ==
  /\ pool = "small"
  /\ InitFetcher
  /\ news_api_key \in BOOLEAN
  /\ category_filter \in CategoryFilters
  /\ InitIdle
  /\ batch = <<>>
  /\ category_scores = <<>>
  /\ calls = <<>>
  /\ analysis = NoAnalysis
SpecFilter == InitFilter /\ [][FetchAll]_vars

\* the sources deliver entries with long summaries
InitSummaries == pool = "long" /\ InitCommon
SpecSummaries == InitSummaries /\ [][FetchAll]_vars
SpecCalls == InitCalls /\ [][NextCalls]_vars

\* SentimentAnalyzer: a caller runs analyze_sentiment on a text
CallAnalyzeSentiment ==
  /\ \E text \in SentimentTexts :
     \E est \in EstimatesFor(text) :
       analysis' = [text |-> text, est |-> est,
                    record |-> AnalyzeSentiment(text, est), made |-> TRUE]
  /\ UNCHANGED <<fetcherVars, catVars, trendVars, agentVars>>

\* TrendAnalyzer: a caller runs extract_keywords on a text, or
\* get_trending_topics on a list of articles
TrendWords ==
  { <<"C","u","p">>,
    <<"c","u","p">>,
    <<"t","h","e">>,
    <<"g","o","a","l">>,
    <<"g","o">>,
    <<"w","i","n","2">>,
    <<"t","o","p","-","g","o","a","l">> }
TrendTexts == { JoinWithSpace(ws) : ws \in Lists(TrendWords, MaxWords) }
TrendArticle(title, summary) ==
  [title |-> title, summary |-> summary, url |-> UrlX, source |-> SourceName,
   published |-> NowIso, category |-> General, sentiment |-> ZeroRecord]
TrendArticles ==
  { TrendArticle(<<"C","u","p"," ","f","i","n","a","l">>, <<"T","h","e"," ","c","u","p"," ","s","a","i","d"," ","g","o","a","l">>),
    TrendArticle(<<"G","o","a","l">>, NoneVal),
    TrendArticle(<<"s","a","i","d"," ","t","h","e"," ","c","u","p">>, Missing) }

\* the call that is about to be made, with its arguments
Requested(via, articles, text, top_n) ==
  [via |-> via, articles |-> articles, text |-> text, top_n |-> top_n,
   keywords |-> <<>>, made |-> FALSE]

CallExtractKeywords ==
  /\ ~extraction.made
  /\ extraction.via = "extract_keywords"
  /\ extraction' =
       [extraction EXCEPT !.keywords = ExtractKeywords(extraction.text, extraction.top_n),
                          !.made = TRUE]
  /\ UNCHANGED <<fetcherVars, catVars, sentimentVars, agentVars>>

CallGetTrendingTopics ==
  /\ ~extraction.made
  /\ extraction.via = "get_trending_topics"
  /\ extraction' =
       [extraction EXCEPT !.text = AllText(extraction.articles),
                          !.keywords = GetTrendingTopics(extraction.articles,
                                                         extraction.top_n),
                          !.made = TRUE]
  /\ UNCHANGED <<fetcherVars, catVars, sentimentVars, agentVars>>

NextTrends == CallExtractKeywords \/ CallGetTrendingTopics
InitTrends ==
  /\ pool = "none"
  /\ InitFetcher
  /\ InitNoFilter
  /\ batch = <<>>
  /\ category_scores = <<>>
  /\ calls = <<>>
  /\ analysis = NoAnalysis
  /\ self_articles = <<>>
  /\ conversation_history = <<>>
  /\ reply = NoReply
  /\ extraction \in
       { Requested("extract_keywords", <<>>, text, top_n) :
           text \in TrendTexts, top_n \in 0..MaxTopN }
       \cup { Requested("get_trending_topics", articles, EmptyStr, top_n) :
                 articles \in Lists(TrendArticles, MaxBatch), top_n \in 0..MaxTopN }
SpecTrends == InitTrends /\ [][NextTrends]_vars

\* ConversationalAgent: the presentation layer asks the agent and clears its
\* history
Utterances ==
  { <<"H","e","l","l","o">>,
    <<"h","e","l","p">>,
    <<"S","p","o","r","t","s"," ","h","e","a","d","l","i","n","e","s">>,
    <<"S","h","o","w"," ","m","e"," ","s","p","o","r","t","s"," ","n","e","w","s">>,
    <<"W","h","a","t","'","s"," ","t","r","e","n","d","i","n","g","?">>,
    <<"p","o","p","u","l","a","r"," ","m","o","o","d">>,
    <<"T","e","l","l"," ","m","e"," ","a","b","o","u","t"," ","r","u","g","b","y">>,
    <<"T","e","l","l"," ","m","e"," ","a","b","o","u","t"," ","f","o","o","t","b","a","l","l"," ","n","e","w","s">>,
    <<"s","e","n","t","i","m","e","n","t"," ","o","n"," ","c","u","p">>,
    <<"h","o","w"," ","m","a","n","y"," ","a","r","t","i","c","l","e","s">>,
    <<"t","h","i","s"," ","w","e","e","k">>,
    <<"B","r","i","e","f"," ","m","e">>,
    <<"o","k">> }
\* articles as fetch_and_process_news returns them: title and source are
\* strings, the summary is a string or None (a null description of the API),
\* category and sentiment are set
AgentArticle(title, summary, category, sentiment) ==
  [title |-> title, summary |-> summary, url |-> UrlX, source |-> SourceName,
   published |-> NowIso, category |-> category, sentiment |-> sentiment]
PositiveRecord == [polarity |-> PolarityScale \div 2, subjectivity |-> PolarityScale \div 2,
                   label |-> "positive"]
ArticleFootball == AgentArticle(TitleFootball, SummaryPlain, "Sports", PositiveRecord)
ArticleSoftware == AgentArticle(TitleSoftware, NoneVal, "Technology", ZeroRecord)
ArticleCup == AgentArticle(<<"T","h","e"," ","c","u","p"," ","s","a","i","d"," ","g","o","a","l">>, <<"C","u","p"," ","f","i","n","a","l">>, General, ZeroRecord)
AgentCorpora ==
  { <<>>, <<ArticleFootball>>, <<ArticleSoftware>>, <<ArticleFootball, ArticleCup>>,
    <<ArticleFootball, ArticleSoftware, ArticleCup>> }

Cleared == [kind |-> "cleared", handler |-> "none", content |-> <<>>]

\* process_query(user_query): the query is stored, the response is generated
\* and stored; when the handler raises, the exception leaves process_query
\* after the first append
ProcessQuery ==
  /\ Len(conversation_history) < 2 * MaxTurns
  /\ \E user_query \in Utterances :
       LET query_lower == Strip(LowerStr(user_query))
           response == GenerateResponse(query_lower, self_articles)
           asked == Append(conversation_history,
                           [role |-> "user", content |-> user_query])
       IN /\ conversation_history' =
               IF response.kind = "raised" THEN asked
               ELSE Append(asked, [role |-> "assistant", content |-> response])
          /\ reply' = response
  /\ UNCHANGED <<fetcherVars, catVars, sentimentVars, trendVars, self_articles>>

\* clear_history()
ClearHistory ==
  /\ conversation_history' = <<>>
  /\ reply' = Cleared
  /\ UNCHANGED <<fetcherVars, catVars, sentimentVars, trendVars, self_articles>>

NextAgent == ProcessQuery \/ ClearHistory
\* ConversationalAgent(articles)
InitAgent ==
  /\ pool = "none"
  /\ InitFetcher
  /\ InitNoFilter
  /\ batch = <<>>
  /\ category_scores = <<>>
  /\ calls = <<>>
  /\ analysis = NoAnalysis
  /\ extraction = NoExtraction
  /\ self_articles \in AgentCorpora
  /\ conversation_history = <<>>
  /\ reply = NoReply
SpecAgent == InitAgent /\ [][NextAgent]_vars

\* fetch_and_process_news ------------------------------------------------------
\* the article dicts that fetch_all returned
AsDicts(articles) ==
  [i \in 1..Len(articles) |->
     [title |-> articles[i].title, summary |-> articles[i].summary,
      url |-> articles[i].url, source |-> articles[i].source,
      published |-> articles[i].published,
      category |-> Missing, sentiment |-> NoSentiment]]

\* articles = fetcher.fetch_all(category); if not articles: return [];
\* articles = categorizer.categorize_batch(articles)
ProcessCategorize ==
  /\ pc = "done"
  /\ IF result.kind # "list"
     THEN pc' = "raised" /\ UNCHANGED catVars
     ELSE IF result.val = <<>>
     THEN pc' = "returned" /\ UNCHANGED catVars
     ELSE LET r == CategorizeBatch(AsDicts(result.val), category_scores, calls) IN
          /\ batch' = r.articles
          /\ category_scores' = r.scores
          /\ calls' = r.calls
          /\ pc' = IF r.raised THEN "raised" ELSE "categorized"
  /\ UNCHANGED <<news_api_key, category_filter, params, pool, seen_urls, all_articles, feedIdx, responses, result, prevSeen,
                 dedupArg, dedupRet, sentimentVars, trendVars, agentVars>>

\* articles = sentiment_analyzer.analyze_batch(articles); return articles
ProcessAnalyze ==
  /\ pc = "categorized"
  /\ \E ests \in [1..Len(batch) -> PipeEstimates] :
       batch' = AnalyzeBatch(batch, ests)
  /\ pc' = "returned"
  /\ UNCHANGED <<news_api_key, category_filter, params, pool, seen_urls, all_articles, feedIdx, responses, result, prevSeen,
                 dedupArg, dedupRet, category_scores, calls, sentimentVars, trendVars, agentVars>>

NextCategorize == CallCategorize \/ CallCategorizeBatch
SpecCategorize == InitCategorize /\ [][NextCategorize]_vars

\* the categorizer is handed one article of the cases
InitCases ==
  /\ pool = "none"
  /\ InitFetcher
  /\ InitNoFilter
  /\ InitIdle
  /\ batch \in { <<article>> : article \in CatCases }
  /\ category_scores = <<>>
  /\ calls = <<>>
  /\ analysis = NoAnalysis
SpecCases == InitCases /\ [][NextCategorize]_vars

NextSentiment == CallAnalyzeSentiment
InitSentiment == pool = "none" /\ InitCommon
SpecSentiment == InitSentiment /\ [][NextSentiment]_vars

FetchAndProcessNews == FetchAll \/ ProcessCategorize \/ ProcessAnalyze
SpecPipeline == InitPipeline /\ [][FetchAndProcessNews]_vars


\* fetch_all as a function of the sources' answers ----------------------------
\* the adapters run on a fresh seen-URL set, the API first and then the feeds
\* in the given order (in the code: the order of NEWS_SOURCES['rss_feeds'])
RECURSIVE RunFeeds(_, _, _, _)
RunFeeds(resps, order, k, st) ==
  IF k > Len(order) THEN st
  ELSE LET r == FetchFromRss(resps[1 + order[k]], FeedTitle(order[k]), st.seen) IN
       RunFeeds(resps, order, k + 1,
                [articles |-> st.articles \o r.articles, seen |-> r.seen])
FetchAllOf(resps, order) ==
  FinishFetchAll(RunFeeds(resps, order, 1, FetchFromNewsApi(resps[1], {})).articles)
ConfiguredOrder == [i \in 1..NumFeeds |-> i]
FeedOrders ==
  { o \in [1..NumFeeds -> 1..NumFeeds] : \A i, j \in 1..NumFeeds : o[i] = o[j] => i = j }

\* Properties ------------------------------------------------------------------
\* fetch_all has returned a list
Done == pc = "done" /\ result.kind = "list"

\* the raw entries of this call in arrival order: the API's, then each feed's
RECURSIVE ArrivalsFrom(_, _)
ArrivalsFrom(resps, k) ==
  IF k > Len(resps) THEN <<>>
  ELSE [i \in 1..Len(resps[k].entries) |->
          [src |-> k, pos |-> i, entry |-> resps[k].entries[i]]]
       \o ArrivalsFrom(resps, k + 1)
Arrivals == ArrivalsFrom(responses, 1)
ArrivalUrl(a) == DictGet(a.entry.url, EmptyStr)
\* the article an adapter makes of an arrival
Emitted(a) ==
  IF a.src = 1 THEN ApiArticle(a.entry) ELSE RssArticle(a.entry, FeedTitle(a.src - 1))
\* the adapter neither fails on the entry nor cuts it off
Emittable(a) ==
  IF a.src = 1 THEN a.entry.src # NoneVal ELSE a.pos <= FeedEntryCap
\* the urls delivered more than once
DupUrls(arr) ==
  { ArrivalUrl(arr[j]) :
      j \in { j \in 1..Len(arr) :
                /\ Truthy(ArrivalUrl(arr[j]))
                /\ \E i \in 1..(j - 1) : ArrivalUrl(arr[i]) = ArrivalUrl(arr[j]) } }
FirstWith(arr, u, P(_)) ==
  arr[CHOOSE i \in 1..Len(arr) :
        /\ ArrivalUrl(arr[i]) = u /\ P(arr[i])
        /\ \A k \in 1..(i - 1) : ~(ArrivalUrl(arr[k]) = u /\ P(arr[k]))]
AnyArrival(a) == TRUE
CountUrl(list, u) == Cardinality({ i \in 1..Len(list) : list[i].url = u })
\* the keys of a title: its first 10 lower-cased tokens, and their concatenation
TokenKey(title) == Take(Split(LowerStr(title)), 10)
JoinedKey(title) == Join(TokenKey(title))

\* C1: every article fetch_all returns has a non-empty url and no two of them
\* have the same url.
C1_UrlsNonEmptyUnique ==
  Done =>
    /\ \A i \in 1..Len(result.val) :
         result.val[i].url \notin {EmptyStr, NoneVal, Missing}
    /\ \A i, j \in 1..Len(result.val) :
         i # j => result.val[i].url # result.val[j].url
\* the sources delivered one url twice, or an entry without url, and two
\* articles came back
C1_Witness ==
  /\ Done
  /\ Len(result.val) >= 2
  /\ \/ DupUrls(Arrivals) # {}
     \/ \E i \in 1..Len(Arrivals) : ~Truthy(ArrivalUrl(Arrivals[i]))

\* C2 as claimed: a url delivered more than once is in the output exactly
\* once, as the article made of its first arrival.
C2_FirstArrivalKept ==
  Done =>
    LET arr == Arrivals IN
    \A u \in DupUrls(arr) :
      /\ CountUrl(result.val, u) = 1
      /\ \E i \in 1..Len(result.val) :
           result.val[i] = Emitted(FirstWith(arr, u, AnyArrival))
\* C2 amended: a url delivered more than once is in the output at most once,
\* as the article made of its first arrival that an adapter accepts; it is
\* absent only when no adapter accepts an arrival with it, when an article of
\* another url with the same non-empty title key is in the output, or when
\* the output is cut at the cap.
C2_FirstAcceptedKeptOrShadowed ==
  Done =>
    LET arr == Arrivals IN
    \A u \in DupUrls(arr) :
      LET accepted == \E i \in 1..Len(arr) : ArrivalUrl(arr[i]) = u /\ Emittable(arr[i])
          first == Emitted(FirstWith(arr, u, Emittable))
      IN /\ CountUrl(result.val, u) <= 1
         /\ CountUrl(result.val, u) = 1 =>
              accepted /\ \E i \in 1..Len(result.val) : result.val[i] = first
         /\ CountUrl(result.val, u) = 0 =>
              \/ ~accepted
              \/ Len(result.val) = FetchCap
              \/ \E i \in 1..Len(result.val) :
                   /\ result.val[i].url # u
                   /\ JoinedKey(result.val[i].title) = JoinedKey(first.title)
                   /\ JoinedKey(first.title) # EmptyStr
\* a url came twice with different titles and its first article is returned
C2_Witness ==
  /\ Done
  /\ \E u \in DupUrls(Arrivals) :
       /\ CountUrl(result.val, u) = 1
       /\ \E i, j \in 1..Len(Arrivals) :
            /\ i < j
            /\ ArrivalUrl(Arrivals[i]) = u /\ ArrivalUrl(Arrivals[j]) = u
            /\ Arrivals[i].entry.title # Arrivals[j].entry.title

\* the output of the deduplication step: of a direct call, or inside fetch_all
DedupOutput ==
  IF pc = "deduped" /\ dedupRet.kind = "list" THEN dedupRet.val
  ELSE IF Done THEN result.val
  ELSE <<>>
\* C3 as claimed: no two articles of the deduplicated list with different
\* urls have the same first-10-token lower-cased title key, empty keys
\* included.
C3_NoSharedTitleKey ==
  LET out == DedupOutput
      keys == <<>> \o [i \in 1..Len(out) |-> TokenKey(out[i].title)]
  IN \A i, j \in 1..Len(out) :
       (i # j /\ out[i].url # out[j].url) => keys[i] # keys[j]
\* C3 amended: the same for titles with at least one token; articles whose
\* title is empty or whitespace only are never collapsed by title.
C3_NoSharedNonEmptyTitleKey ==
  LET out == DedupOutput
      keys == <<>> \o [i \in 1..Len(out) |-> TokenKey(out[i].title)]
  IN \A i, j \in 1..Len(out) :
       (i # j /\ out[i].url # out[j].url /\ keys[i] # <<>>) => keys[i] # keys[j]
\* a direct call dropped an article whose title differs from an earlier one's
\* only after the tenth token
C3_Witness ==
  /\ pc = "deduped" /\ dedupRet.kind = "list"
  /\ Len(dedupRet.val) < Len(dedupArg)
  /\ \E i, j \in 1..Len(dedupArg) :
       /\ i < j
       /\ dedupArg[i].url # dedupArg[j].url
       /\ Len(Split(dedupArg[i].title)) > TitleKeyTokens
       /\ dedupArg[i].title # dedupArg[j].title
       /\ TokenKey(dedupArg[i].title) = TokenKey(dedupArg[j].title)
       /\ \A k \in 1..Len(dedupRet.val) : dedupRet.val[k] # dedupArg[j]

\* C4: fetch_all never raises to its caller, whatever the sources answer.
C4_NeverRaises == pc = "done" => result.kind = "list"

\* the instant of a timestamp string, in hours; a string without offset is
\* taken as UTC
DigitVal(c) == CHOOSE d \in 0..9 : DigitChars[d + 1] = c
IsTimestamp(s) == s # NoneVal /\ Len(s) >= 19
OffsetHours(suffix) ==
  IF Len(suffix) = 6 /\ suffix[1] = "+" THEN 10 * DigitVal(suffix[2]) + DigitVal(suffix[3])
  ELSE IF Len(suffix) = 6 /\ suffix[1] = "-"
       THEN 0 - (10 * DigitVal(suffix[2]) + DigitVal(suffix[3]))
  ELSE 0
Instant(s) ==
  24 * DigitVal(s[10]) + 10 * DigitVal(s[12]) + DigitVal(s[13])
    - OffsetHours(SubSeq(s, 20, Len(s)))

\* C5: in the returned list no article is older than the one after it.
C5_NonIncreasingInTime ==
  Done =>
    \A i \in 1..(Len(result.val) - 1) :
      (IsTimestamp(result.val[i].published) /\ IsTimestamp(result.val[i + 1].published))
        => Instant(result.val[i].published) >= Instant(result.val[i + 1].published)

\* the source gave the article a parseable published date
Dated(article) ==
  FirstWith(Arrivals, article.url, Emittable).entry.pub.k = "date"
\* C6: no article without a parseable date of its source stands before an
\* article with one.
C6_UndatedLast ==
  Done =>
    \A i, j \in 1..Len(result.val) :
      i < j => ~(~Dated(result.val[i]) /\ Dated(result.val[j]))

\* C7: at most 100 articles are returned, and no article left out by the cap
\* is more recent than a returned one.
C7_CapKeepsMostRecent ==
  Done =>
    /\ Len(result.val) <= FetchCap
    /\ LET unique == Deduplicate(all_articles) IN
       \A k \in 1..Len(unique) : \A i \in 1..Len(result.val) :
         (/\ \A m \in 1..Len(result.val) : result.val[m].url # unique[k].url
          /\ IsTimestamp(unique[k].published)
          /\ IsTimestamp(result.val[i].published))
           => Instant(unique[k].published) <= Instant(result.val[i].published)

\* C8: a fetch_all call returns what the sources' answers give on a fresh
\* fetcher, whatever calls came before it.
C8_NoLeakBetweenCalls ==
  pc = "done" => result = FetchAllOf(responses, ConfiguredOrder)
\* a url that the fetcher had seen before the call is returned again
C8_Witness ==
  /\ Done
  /\ \E i \in 1..Len(result.val) : result.val[i].url \in prevSeen

\* C9: the returned list is the same for every order in which the feed
\* adapters run.
C9_OrderIndependent ==
  pc = "done" => \A order \in FeedOrders : FetchAllOf(responses, order) = result

\* C10 - categorize is a deterministic function of the article's title,
\* summary, url and source: two calls on articles with the same four fields
\* have the same outcome, whatever calls were made before or in between and
\* whether or not categorize_batch has written a category into the article;
\* and a categorize call leaves the article dicts as they were
C10_CategorizePure ==
  /\ [](\A i, j \in 1..Len(calls) :
          calls[i].article = calls[j].article => calls[i].outcome = calls[j].outcome)
  /\ [][(calls' # calls /\ calls'[Len(calls')].via = "categorize") => batch' = batch]_vars
\* an article is categorized by its keywords, another article with another
\* outcome is categorized, and the first one is categorized again
C10_Witness ==
  \E i, k, j \in 1..Len(calls) :
     /\ i < k /\ k < j
     /\ calls[i].article = calls[j].article
     /\ calls[i].outcome = calls[j].outcome
     /\ calls[i].outcome \notin {"raise", General}
     /\ SourceHint(calls[i].article) = ""
     /\ calls[k].outcome \notin {"raise", General, calls[i].outcome}
     /\ SourceHint(calls[k].article) = ""
     /\ calls[j].via = "categorize"

\* Categorizer claims ----------------------------------------------------------
\* keyword occurs in text as a whole word (the keywords of the tables begin
\* and end with a letter or digit)
HasWord(keyword, text) ==
  \E pre \in 0..(Len(text) - Len(keyword)) :
     /\ \A k \in 1..Len(keyword) : text[pre + k] = keyword[k]
     /\ (pre = 0 \/ ~IsWordChar(text[pre]))
     /\ (pre + Len(keyword) = Len(text) \/ ~IsWordChar(text[pre + Len(keyword) + 1]))
\* the number of keywords of the category's list that occur in text
WordCount(c, text) ==
  Cardinality({ k \in 1..Len(category_keywords[c].keywords) :
                  HasWord(category_keywords[c].keywords[k], text) })
NoKeyword(article) ==
  \A c \in 1..Len(category_keywords) : WordCount(c, ArticleText(article)) = 0
Returns(call) == call.outcome # "raise"

\* C11 - an article whose title and summary contain no keyword of any
\* category list is categorized General, whatever its url and source are
C11_NoKeywordGeneral ==
  \A i \in 1..Len(calls) :
     NoKeyword(calls[i].article) => calls[i].outcome = General
\* C11, amended - for an article without any keyword categorize returns
\* General if url and source carry no source hint and the hinted category if
\* they carry one; it raises when url or source is None
C11_NoKeywordGeneralUnlessHinted ==
  \A i \in 1..Len(calls) :
     NoKeyword(calls[i].article) =>
        calls[i].outcome =
          IF calls[i].article.url = NoneVal \/ calls[i].article.source = NoneVal
          THEN "raise"
          ELSE IF SourceHint(calls[i].article) = "" THEN General
          ELSE SourceHint(calls[i].article)
\* an article whose words only contain keywords as parts ("said", "happy")
\* has been categorized without a hint, and so has a keyword-free one with
\* a hint
C11_Witness ==
  /\ \E i \in 1..Len(calls) :
        /\ calls[i].article.title = TitleHappy
        /\ NoKeyword(calls[i].article)
        /\ SourceHint(calls[i].article) = ""
        /\ calls[i].outcome = General
  /\ Len(calls) >= 2

\* Pipeline claims -------------------------------------------------------------
\* fetch_and_process_news has ended, by returning or by raising
Ended == pc \in {"returned", "raised"}
Annotated(article) ==
  /\ article.category \in CATEGORIES
  /\ article.sentiment # NoSentiment
  /\ article.sentiment.label \in Labels

\* C12 - after the pipeline (fetch_all, categorize_batch, analyze_batch) has
\* run, every article of the batch has a category of the fixed category set
\* and a sentiment record whose label is positive, negative or neutral
C12_CategoryAndSentimentSet ==
  Ended => \A i \in 1..Len(batch) : Annotated(batch[i])

\* the calls that got as far as scoring: no exception, no source hint
Scored(call) == Returns(call) /\ SourceHint(call.article) = ""
ScoredCalls == { i \in 1..Len(calls) : Scored(calls[i]) }
\* the last of them; category_scores is the dict this call built
LastScored == calls[CHOOSE i \in ScoredCalls : \A j \in ScoredCalls : j <= i]
CategoryIndex(name) ==
  CHOOSE c \in 1..Len(category_keywords) : category_keywords[c].category = name
TitleText(article) == LowerStr(Format(DictGet(article.title, EmptyStr)))

\* C13 - the score of each category is 3 times the number of its keywords
\* that occur as whole words in the title plus the number of its keywords
\* that occur as whole words in title and summary combined
C13_TitleWeighsThree ==
  ScoredCalls # {} =>
    \A k \in 1..Len(category_scores) :
       category_scores[k].score =
         3 * WordCount(CategoryIndex(category_scores[k].category),
                       TitleText(LastScored.article))
         + WordCount(CategoryIndex(category_scores[k].category),
                     ArticleText(LastScored.article))

\* C14 - the winning category is returned with a score of 1 when it is
\* Finance, Sports or Politics and with a score of at least 2 otherwise;
\* below that the result is General
LowThresholdCategories == { "Finance", "Sports", "Politics" }
C14_ThresholdByCategory ==
  (ScoredCalls # {} /\ category_scores # <<>>) =>
    LET best == BestCategory(category_scores)
        score == category_scores[CHOOSE k \in 1..Len(category_scores) :
                                   category_scores[k].category = best].score
    IN LastScored.outcome =
         IF score >= (IF best \in LowThresholdCategories THEN 1 ELSE 2)
         THEN best ELSE General

\* the categories that are not excluded and have a keyword in the text and,
\* of these, the ones with the greatest number of keywords
TopCandidates(text) ==
  LET count == <<>> \o [c \in 1..Len(category_keywords) |-> WordCount(c, text)]
      cand == { c \in 1..Len(category_keywords) :
                  ~Excluded(category_keywords[c].category, text) /\ count[c] > 0 }
  IN { c \in cand : \A d \in cand : count[d] <= count[c] }
FirstOf(S) == CHOOSE c \in S : \A d \in S : c <= d

\* C15 - when categorize gets as far as scoring and several non-excluded
\* categories share the greatest score, it returns the one that comes first
\* in the order of the keyword table, provided that score reaches the
\* threshold
C15_TieFirstInTableOrder ==
  \A i \in ScoredCalls :
     LET top == TopCandidates(ArticleText(calls[i].article)) IN
     (Cardinality(top) >= 2
      /\ WordCount(FirstOf(top), ArticleText(calls[i].article)) >= MinScore)
       => calls[i].outcome = category_keywords[FirstOf(top)].category
\* a tie of Business and Finance at the threshold has been decided
C15_Witness ==
  /\ \E i \in ScoredCalls :
        /\ calls[i].article.title = TitleBusinessFinance
        /\ calls[i].article.summary = Missing
        /\ Cardinality(TopCandidates(ArticleText(calls[i].article))) = 2
        /\ calls[i].outcome = "Business"
  /\ Len(calls) >= 2

\* the order in which the source hints are checked
HintOrder == <<"Sports", "Technology", "Business", "Finance">>
HintsOf(name) ==
  SourceHints[CHOOSE h \in 1..Len(SourceHints) : SourceHints[h].category = name].hints
\* the url or the source, as far as it is a string, contains a hint of name
CarriesHint(article, name) ==
  \E v \in {article.url, article.source} \ {NoneVal, Missing} :
     \E k \in 1..Len(HintsOf(name)) : IsSubstring(HintsOf(name)[k], LowerStr(v))
HintedPositions(article) ==
  { h \in 1..Len(HintOrder) : CarriesHint(article, HintOrder[h]) }

\* C16 - if the url or the source name of the article contains a source
\* hint, categorize returns the hinted category whatever the keyword scores,
\* exclusion phrases and thresholds are; of several hinted categories the
\* first in the order Sports, Technology, Business, Finance is returned
C16_HintDecides ==
  \A i \in 1..Len(calls) :
     HintedPositions(calls[i].article) # {} =>
        calls[i].outcome = HintOrder[FirstOf(HintedPositions(calls[i].article))]

\* the categories one of whose exclusion phrases occurs in the text
ExcludedBy(text) ==
  { name \in DOMAIN exclusion_keywords :
      \E k \in 1..Len(exclusion_keywords[name]) :
         IsSubstring(exclusion_keywords[name][k], text) }

\* C17 - when the text of title and summary contains an exclusion phrase of
\* a category and no source hint applies, categorize does not return that
\* category, however many of its keywords occur in the text
C17_ExcludedNeverReturned ==
  \A i \in 1..Len(calls) :
     HintedPositions(calls[i].article) = {} =>
        calls[i].outcome \notin ExcludedBy(ArticleText(calls[i].article))
\* an article with an exclusion phrase of Sports and at least two keywords of
\* Sports, more than of any other category, has been categorized
C17_Witness ==
  /\ \E i \in ScoredCalls :
        /\ "Sports" \in ExcludedBy(ArticleText(calls[i].article))
        /\ WordCount(CategoryIndex("Sports"), ArticleText(calls[i].article)) >= MinScore
        /\ \A c \in 1..Len(category_keywords) :
              WordCount(c, ArticleText(calls[i].article))
                <= WordCount(CategoryIndex("Sports"), ArticleText(calls[i].article))
        /\ calls[i].outcome = General
  /\ Len(calls) >= 2

\* the finance-specific vocabulary
FinanceWords ==
  { <<"s","t","o","c","k">>, <<"t","r","a","d","i","n","g">>, <<"b","a","n","k">>,
    <<"i","n","f","l","a","t","i","o","n">> }

\* C18 - an article with equal keyword scores for Finance and Business whose
\* text contains finance-specific vocabulary is categorized Finance, not
\* Business
C18_FinanceBeatsBusiness ==
  \A i \in ScoredCalls :
     LET text == ArticleText(calls[i].article) IN
     (/\ WordCount(CategoryIndex("Finance"), text) > 0
      /\ WordCount(CategoryIndex("Finance"), text)
           = WordCount(CategoryIndex("Business"), text)
      /\ \E w \in FinanceWords : HasWord(w, text))
       => calls[i].outcome # "Business"

\* Sentiment claims ------------------------------------------------------------
\* the label that the thresholds give to a polarity
ThresholdLabel(p) ==
  IF p > PolarityScale \div 10 THEN "positive"
  ELSE IF p < 0 - (PolarityScale \div 10) THEN "negative"
  ELSE "neutral"

\* C19 - in every record returned by analyze_sentiment the label is the one
\* the thresholds give to the returned polarity: positive iff it is above
\* 0.1, negative iff it is below -0.1, neutral otherwise
C19_LabelOfReturnedPolarity ==
  analysis.made => analysis.record.label = ThresholdLabel(analysis.record.polarity)

\* C20 - analyze_sentiment never raises, and for an empty or missing text
\* and whenever the estimator fails it returns the record with polarity 0.0,
\* subjectivity 0.0 and label neutral
C20_ZeroRecordNeverRaises ==
  analysis.made =>
    /\ DOMAIN analysis.record = {"polarity", "subjectivity", "label"}
    /\ (analysis.text \in {NoneVal, EmptyStr, NotAStr} \/ analysis.est.fails)
         => analysis.record = [polarity |-> 0, subjectivity |-> 0, label |-> "neutral"]
\* the estimator has failed on a text that is a non-empty str
C20_Witness ==
  /\ analysis.made
  /\ analysis.text = TextGood
  /\ analysis.est.fails
  /\ analysis.record.label = "neutral"

\* C26 - whenever the API adapter sends a category parameter, its value is a
\* member of the category vocabulary of the API source, whichever category
\* filter the presentation layer passes
C26_CategoryInApiVocabulary ==
  params.category # Missing => params.category \in NewsApiCategories

\* C25 - every article emitted by a fetch adapter, feed or API, has a summary
\* of at most 500 characters
C25_SummaryAtMost500 ==
  \A i \in 1..Len(all_articles) : Len(all_articles[i].summary) <= SummaryCap

\* sub is made of elements of list, in the order they have in list
IsSubsequence(sub, list) ==
  \E f \in [1..Len(sub) -> 1..Len(list)] :
     /\ \A i \in 1..Len(sub) : list[f[i]] = sub[i]
     /\ \A i, j \in 1..Len(sub) : i < j => f[i] < f[j]

\* C27 - _deduplicate is idempotent: for every list L on which it returns,
\* _deduplicate(_deduplicate(L)) equals _deduplicate(L), and the output is an
\* order-preserving subsequence of L
C27_DedupIdempotent ==
  (pc = "deduped" /\ dedupRet.kind = "list") =>
     /\ ~DedupRaises(dedupRet.val)
     /\ Deduplicate(dedupRet.val) = dedupRet.val
     /\ IsSubsequence(dedupRet.val, dedupArg)
\* a direct call dropped an article and kept two
C27_Witness ==
  /\ pc = "deduped" /\ dedupRet.kind = "list"
  /\ Len(dedupRet.val) >= 2
  /\ Len(dedupRet.val) < Len(dedupArg)

\* an arrival is represented in the list: the article made of it is there, or
\* an article with its url or with the key of its title
Represented(a, list) ==
  LET url == ArrivalUrl(a)
      title == Emitted(a).title
  IN \E i \in 1..Len(list) :
        \/ list[i] = Emitted(a)
        \/ Truthy(url) /\ list[i].url = url
        \/ title # NoneVal /\ JoinedKey(list[i].title) = JoinedKey(title)

\* C29 - no article is lost without a surviving duplicate: when fetch_all
\* returns a list that was not cut at the cap, every article a source
\* delivered in the call is in the result or shares its url or its title key
\* with an article of the result
C29_NoArticleLost ==
  (Done /\ Len(result.val) < FetchCap) =>
     \A k \in 1..Len(Arrivals) : Represented(Arrivals[k], result.val)

\* Trend claims ----------------------------------------------------------------
\* the word w stands at position i of the text as a whole word
TokenAt(w, text, i) ==
  /\ i + Len(w) - 1 <= Len(text)
  /\ SubSeq(text, i, i + Len(w) - 1) = w
  /\ WordBoundary(text, i)
  /\ WordBoundary(text, i + Len(w))
\* the number of its occurrences, and the position of the first one
Occurrences(w, text) ==
  Cardinality({ i \in 1..Len(text) : TokenAt(w, text, i) })
FirstOccurrence(w, text) ==
  CHOOSE i \in 1..Len(text) :
     TokenAt(w, text, i) /\ \A j \in 1..(i - 1) : ~TokenAt(w, text, j)
TheStopWord == <<"t","h","e">>

\* C21 - no keyword in the output of extract_keywords is a stop word, every
\* keyword is a token of at least 3 lower-case letters that occurs in the
\* lower-cased text, and its frequency is the number of its occurrences
C21_KeywordsAreCountedTokens ==
  extraction.made =>
    LET low == LowerStr(extraction.text) IN
    \A k \in 1..Len(extraction.keywords) :
       LET e == extraction.keywords[k] IN
       /\ e.word \notin stop_words
       /\ Len(e.word) >= 3
       /\ \A i \in 1..Len(e.word) : IsLowerLetter(e.word[i])
       /\ e.count >= 1
       /\ e.count = Occurrences(e.word, low)
\* a text with a stop word and a capital letter has a keyword that occurs twice
C21_Witness ==
  /\ extraction.made
  /\ extraction.text # LowerStr(extraction.text)
  /\ Occurrences(TheStopWord, LowerStr(extraction.text)) >= 1
  /\ \E k \in 1..Len(extraction.keywords) : extraction.keywords[k].count = 2

\* the keywords of a text: its tokens of at least 3 lower-case letters that
\* are not stop words
KeywordsOf(text) ==
  LET runs == WordRuns(text) IN
  { runs[r] : r \in { r \in 1..Len(runs) :
                        /\ Len(runs[r]) >= 3
                        /\ \A i \in 1..Len(runs[r]) : IsLowerLetter(runs[r][i])
                        /\ runs[r] \notin stop_words } }
Returned_Words == { extraction.keywords[k].word : k \in 1..Len(extraction.keywords) }

\* C22 - the output of extract_keywords has at most top_n entries, its
\* frequencies do not increase along the sequence, keywords of equal frequency
\* are in the order of their first occurrence in the text, and no omitted
\* keyword has a higher frequency than a returned one
C22_TopNStableByFrequency ==
  extraction.made =>
    LET low == LowerStr(extraction.text)
        kws == extraction.keywords
    IN /\ Len(kws) <= extraction.top_n
       /\ \A i, j \in 1..Len(kws) :
            i < j =>
              /\ kws[i].count >= kws[j].count
              /\ kws[i].count = kws[j].count =>
                   FirstOccurrence(kws[i].word, low) < FirstOccurrence(kws[j].word, low)
       /\ \A w \in KeywordsOf(low) \ Returned_Words :
            \A k \in 1..Len(kws) : Occurrences(w, low) <= kws[k].count
\* the cut falls between two keywords of equal frequency
C22_Witness ==
  /\ extraction.made
  /\ Len(extraction.keywords) = extraction.top_n
  /\ extraction.top_n >= 2
  /\ extraction.keywords[1].count > extraction.keywords[2].count
  /\ \E w \in KeywordsOf(LowerStr(extraction.text)) \ Returned_Words :
        Occurrences(w, LowerStr(extraction.text)) = extraction.keywords[2].count

\* Agent claims ----------------------------------------------------------------
\* the query of the last process_query call, as _generate_response gets it
LastQuery ==
  LET n == Len(conversation_history)
      entry == IF conversation_history[n].role = "user"
               THEN conversation_history[n] ELSE conversation_history[n - 1]
  IN Strip(LowerStr(entry.content))
Asked == reply.kind \in {"str", "raised"}
\* the intents of the claimed priority order with the handlers they stand for
ClaimedOrder ==
  << [handler |-> "greeting", phrases |-> Phrases.greeting],
     [handler |-> "help", phrases |-> Phrases.help],
     [handler |-> "category_query", phrases |-> QueryCategories],
     [handler |-> "top_stories", phrases |-> Phrases.top_stories],
     [handler |-> "trending", phrases |-> Phrases.trending],
     [handler |-> "sentiment_query", phrases |-> Phrases.sentiment],
     [handler |-> "count_query", phrases |-> Phrases.count] >>
MatchingIntents(query) ==
  { k \in 1..Len(ClaimedOrder) : AnyIn(ClaimedOrder[k].phrases, query) }

\* C23 - when an utterance matches the phrase sets of several intents, the
\* handler that runs is the one of the first matching intent in the order
\* greeting, help, category mention, top stories, trending, sentiment, count
C23_ClaimedPriorityOrder ==
  (Asked /\ MatchingIntents(LastQuery) # {}) =>
     reply.handler = ClaimedOrder[FirstOf(MatchingIntents(LastQuery))].handler

\* C24 - process_query never raises to the caller: for every utterance and
\* every article list the pipeline can produce it returns a string
C24_ProcessQueryNeverRaises == reply.kind # "raised"

\* C28 - the keywords and counts the trending handler reports are the first
\* 10 entries of get_trending_topics(articles, 10)
C28_TrendingViewsAgree ==
  (reply.kind = "str" /\ reply.handler = "trending" /\ self_articles # <<>>) =>
     reply.content = Take(GetTrendingTopics(self_articles, TrendingLimit), TrendingLimit)

\* the history alternates user and assistant entries, each assistant entry
\* holding the response to the query before it
HistoryAlternates ==
  LET n == Len(conversation_history) IN
  /\ n % 2 = 0
  /\ \A k \in 1..n :
       IF k % 2 = 1 THEN conversation_history[k].role = "user"
       ELSE /\ conversation_history[k].role = "assistant"
            /\ conversation_history[k].content =
                  GenerateResponse(Strip(LowerStr(conversation_history[k - 1].content)),
                                   self_articles)

\* C30 - after any sequence of process_query and clear_history calls, failing
\* handlers included, the history has even length and alternates user and
\* assistant entries, each assistant entry being the response to the user
\* entry before it; clear_history leaves the history empty and the articles
\* unchanged
C30_HistoryAlternates ==
  /\ [](HistoryAlternates)
  /\ [][reply'.kind = "cleared" =>
          (conversation_history' = <<>> /\ self_articles' = self_articles)]_vars
====
